---- MODULE Spec2Model ----
(***************************************************************************)
(* Validated generation with bounded repair: the four AI generation steps  *)
(* of the podcast pipeline (summary, social posts, titles, YouTube         *)
(* timestamps).  Each step issues a completion call, parses and validates  *)
(* the reply, issues at most one repair call and degrades to a fallback.   *)
(*                                                                         *)
(* Strings are sequences of UTF-16 code units written as one-character     *)
(* TLA+ strings ("uXXXX" for a non-ASCII unit), so that length, substring  *)
(* and concatenation are the ones of the program.  A JSON value is a       *)
(* tagged record [t, v].  The text of a reply is identified with the JSON  *)
(* value it denotes, or is not JSON at all.                                *)
(***************************************************************************)
EXTENDS Integers, Sequences, FiniteSets, TLC

\* ------------------------------------------------------------------ bounds

\* Longest titles array a timestamp reply carries in the model.
MaxReplyTitles == 2
\* How many chapters beyond the YouTube cap the longest transcript has.
OverCap == 50
\* Length of the transcript text that exceeds every fallback prefix.
LongTextLen == 501

\* ------------------------------------------------------- program constants

\* youtube-timestamps.ts:72  chapters.slice(0, 100)
YouTubeMaxChapters == 100
\* social-posts.ts:206  twitter.length > 280
TwitterLimit == 280
\* social-posts.ts:210  substring(0, 277)
TwitterKeep == 277
\* summary.ts:160  transcript.text.substring(0, 500)
FallbackFullLen == 500
\* summary.ts:163  transcript.text.substring(0, 200)
FallbackTldrLen == 200
\* summary.ts:46  transcript.text.substring(0, 3000)
SummaryTextLen == 3000
\* part_003:56  transcript.text.substring(0, 2000)
TitlesTextLen == 2000
\* social-posts.ts:62  transcript.text?.substring(0, 500)
SocialTextLen == 500
\* social-posts.ts:67  transcript.chapters?.slice(0, 5)
SocialTopicCount == 5

\* ----------------------------------------------------------------- strings

Min(a, b) == IF a < b THEN a ELSE b

\* String.prototype.substring(0, n)
Substring0(s, n) == SubSeq(s, 1, Min(Len(s), n))

DigitChars == <<"0", "1", "2", "3", "4", "5", "6", "7", "8", "9">>

RECURSIVE NumToStr(_)
\* `${n}` for a non-negative integer n
NumToStr(n) ==
    IF n < 10 THEN <<DigitChars[n + 1]>>
    ELSE NumToStr(n \div 10) \o <<DigitChars[(n % 10) + 1]>>

Ellipsis == <<".", ".", ".">>

\* A string of n characters cycling through a, b, c.
Rep(n) == [i \in 1..n |-> <<"a", "b", "c">>[((i - 1) % 3) + 1]]

\* -------------------------------------------------------------- JSON values

JNull == [t |-> "null", v |-> 0]
JNum(n) == [t |-> "num", v |-> n]
JStr(s) == [t |-> "str", v |-> s]
JArr(a) == [t |-> "arr", v |-> a]
JObj(o) == [t |-> "obj", v |-> o]

IsStr(j) == j.t = "str"
IsArr(j) == j.t = "arr"
IsObj(j) == j.t = "obj"

JBool(b) == [t |-> "bool", v |-> b]

\* the value of a property that is not there
Undefined == [t |-> "undef", v |-> 0]

\* JavaScript truthiness of a JSON value
Truthy(j) ==
    CASE j.t \in {"null", "undef"} -> FALSE
      [] j.t = "bool" -> j.v
      [] j.t = "num" -> j.v # 0
      [] j.t = "str" -> j.v # <<>>
      [] OTHER -> TRUE

\* value.length: the size of an array or a string, the length property of an
\* object, undefined for anything else
LengthOf(j) ==
    CASE j.t \in {"arr", "str"} -> JNum(Len(j.v))
      [] j.t = "obj" -> IF "length" \in DOMAIN j.v THEN j.v.length ELSE Undefined
      [] OTHER -> Undefined

RECURSIVE ToStringThrows(_)
\* `${value}`: the conversion to text of a parsed JSON value throws a TypeError
\* for an object with a toString property of its own (parsed JSON holds no
\* function, and valueOf gives no primitive), and for an array, converted by
\* joining its elements, when the conversion of an element throws
ToStringThrows(j) ==
    CASE j.t = "obj" -> "toString" \in DOMAIN j.v
      [] j.t = "arr" -> \E i \in 1..Len(j.v) : ToStringThrows(j.v[i])
      [] OTHER -> FALSE

LitObjectObject ==
    <<"[", "o", "b", "j", "e", "c", "t", " ", "O", "b", "j", "e", "c", "t", "]">>

RECURSIVE ToText(_)
RECURSIVE JoinFrom(_, _)
\* String(value) of a value whose conversion does not throw (numbers are the
\* non-negative integers of the replies)
ToText(j) ==
    CASE j.t = "str" -> j.v
      [] j.t = "num" -> NumToStr(j.v)
      [] j.t = "bool" -> IF j.v THEN <<"t", "r", "u", "e">> ELSE <<"f", "a", "l", "s", "e">>
      [] j.t = "null" -> <<"n", "u", "l", "l">>
      [] j.t = "undef" -> <<"u", "n", "d", "e", "f", "i", "n", "e", "d">>
      [] j.t = "arr" -> JoinFrom(j.v, 1)
      [] OTHER -> LitObjectObject

\* Array.prototype.join from position pos: null elements give the empty text
JoinFrom(list, pos) ==
    IF pos > Len(list) THEN <<>>
    ELSE (IF list[pos].t \in {"null", "undef"} THEN <<>> ELSE ToText(list[pos]))
         \o (IF pos < Len(list) THEN <<",">> \o JoinFrom(list, pos + 1) ELSE <<>>)

\* the WhiteSpace and LineTerminator characters StringToNumber strips: tab,
\* line feed, vertical tab, form feed, carriage return and space as
\* themselves, the others by their code unit (hex digits in either case)
WhiteSpace ==
    {" ", "\t", "\n", "\r", "\f", "",
     "u000B", "u000b", "u000C", "u000c", "u00A0", "u00a0", "uFEFF", "ufeff",
     "u1680", "u2000", "u2001", "u2002", "u2003", "u2004", "u2005", "u2006",
     "u2007", "u2008", "u2009", "u200A", "u200a", "u2028", "u2029", "u202F",
     "u202f", "u205F", "u205f", "u3000"}
DigitSet == {DigitChars[i] : i \in 1..10}
HexDigitSet ==
    DigitSet \cup {"a", "b", "c", "d", "e", "f", "A", "B", "C", "D", "E", "F"}

AllIn(s, chars) == \A i \in 1..Len(s) : s[i] \in chars

\* the text without its leading and trailing white space
Trim(s) ==
    LET keep == {i \in 1..Len(s) : s[i] \notin WhiteSpace} IN
    IF keep = {} THEN <<>>
    ELSE SubSeq(s, CHOOSE i \in keep : \A q \in keep : i <= q,
                   CHOOSE i \in keep : \A q \in keep : i >= q)

\* a hexadecimal, octal or binary literal of a value above zero
RadixPositive(u) ==
    /\ Len(u) >= 3 /\ u[1] = "0"
    /\ LET body == SubSeq(u, 3, Len(u)) IN
       /\ \/ u[2] \in {"x", "X"} /\ AllIn(body, HexDigitSet)
          \/ u[2] \in {"o", "O"} /\ AllIn(body, {"0", "1", "2", "3", "4", "5", "6", "7"})
          \/ u[2] \in {"b", "B"} /\ AllIn(body, {"0", "1"})
       /\ \E i \in 1..Len(body) : body[i] # "0"

DigitValue(c) == CHOOSE d \in 0..9 : DigitChars[d + 1] = c

\* the text without its leading zeros
StripZeros(ds) ==
    LET nz == {i \in 1..Len(ds) : ds[i] # "0"} IN
    IF nz = {} THEN <<>>
    ELSE SubSeq(ds, CHOOSE i \in nz : \A q \in nz : i <= q, Len(ds))

RECURSIVE DigitsToNat(_)
\* the number a run of digits denotes
DigitsToNat(ds) ==
    IF ds = <<>> THEN 0
    ELSE 10 * DigitsToNat(SubSeq(ds, 1, Len(ds) - 1)) + DigitValue(ds[Len(ds)])

\* the digits of 5^1075: 2^-1075 = 0.HalfMinDigits * 10^-323 is half the
\* smallest positive double; a decimal rounds to a double above zero exactly
\* when it is greater than this (a tie rounds to even, which is zero)
HalfMinDigits ==
<<
    "2", "4", "7", "0", "3", "2", "8", "2", "2", "9", "2", "0", "6", "2", "3", "2",
    "7", "2", "0", "8", "8", "2", "8", "4", "3", "9", "6", "4", "3", "4", "1", "1",
    "0", "6", "8", "6", "1", "8", "2", "5", "2", "9", "9", "0", "1", "3", "0", "7",
    "1", "6", "2", "3", "8", "2", "2", "1", "2", "7", "9", "2", "8", "4", "1", "2",
    "5", "0", "3", "3", "7", "7", "5", "3", "6", "3", "5", "1", "0", "4", "3", "7",
    "5", "9", "3", "2", "6", "4", "9", "9", "1", "8", "1", "8", "0", "8", "1", "7",
    "9", "9", "6", "1", "8", "9", "8", "9", "8", "2", "8", "2", "3", "4", "7", "7",
    "2", "2", "8", "5", "8", "8", "6", "5", "4", "6", "3", "3", "2", "8", "3", "5",
    "5", "1", "7", "7", "9", "6", "9", "8", "9", "8", "1", "9", "9", "3", "8", "7",
    "3", "9", "8", "0", "0", "5", "3", "9", "0", "9", "3", "9", "0", "6", "3", "1",
    "5", "0", "3", "5", "6", "5", "9", "5", "1", "5", "5", "7", "0", "2", "2", "6",
    "3", "9", "2", "2", "9", "0", "8", "5", "8", "3", "9", "2", "4", "4", "9", "1",
    "0", "5", "1", "8", "4", "4", "3", "5", "9", "3", "1", "8", "0", "2", "8", "4",
    "9", "9", "3", "6", "5", "3", "6", "1", "5", "2", "5", "0", "0", "3", "1", "9",
    "3", "7", "0", "4", "5", "7", "6", "7", "8", "2", "4", "9", "2", "1", "9", "3",
    "6", "5", "6", "2", "3", "6", "6", "9", "8", "6", "3", "6", "5", "8", "4", "8",
    "0", "7", "5", "7", "0", "0", "1", "5", "8", "5", "7", "6", "9", "2", "6", "9",
    "9", "0", "3", "7", "0", "6", "3", "1", "1", "9", "2", "8", "2", "7", "9", "5",
    "5", "8", "5", "5", "1", "3", "3", "2", "9", "2", "7", "8", "3", "4", "3", "3",
    "8", "4", "0", "9", "3", "5", "1", "9", "7", "8", "0", "1", "5", "5", "3", "1",
    "2", "4", "6", "5", "9", "7", "2", "6", "3", "5", "7", "9", "5", "7", "4", "6",
    "2", "2", "7", "6", "6", "4", "6", "5", "2", "7", "2", "8", "2", "7", "2", "2",
    "0", "0", "5", "6", "3", "7", "4", "0", "0", "6", "4", "8", "5", "4", "9", "9",
    "9", "7", "7", "0", "9", "6", "5", "9", "9", "4", "7", "0", "4", "5", "4", "0",
    "2", "0", "8", "2", "8", "1", "6", "6", "2", "2", "6", "2", "3", "7", "8", "5",
    "7", "3", "9", "3", "4", "5", "0", "7", "3", "6", "3", "3", "9", "0", "0", "7",
    "9", "6", "7", "7", "6", "1", "9", "3", "0", "5", "7", "7", "5", "0", "6", "7",
    "4", "0", "1", "7", "6", "3", "2", "4", "6", "7", "3", "6", "0", "0", "9", "6",
    "8", "9", "5", "1", "3", "4", "0", "5", "3", "5", "5", "3", "7", "4", "5", "8",
    "5", "1", "6", "6", "6", "1", "1", "3", "4", "2", "2", "3", "7", "6", "6", "6",
    "7", "8", "6", "0", "4", "1", "6", "2", "1", "5", "9", "6", "8", "0", "4", "6",
    "1", "9", "1", "4", "4", "6", "7", "2", "9", "1", "8", "4", "0", "3", "0", "0",
    "5", "3", "0", "0", "5", "7", "5", "3", "0", "8", "4", "9", "0", "4", "8", "7",
    "6", "5", "3", "9", "1", "7", "1", "1", "3", "8", "6", "5", "9", "1", "6", "4",
    "6", "2", "3", "9", "5", "2", "4", "9", "1", "2", "6", "2", "3", "6", "5", "3",
    "8", "8", "1", "8", "7", "9", "6", "3", "6", "2", "3", "9", "3", "7", "3", "2",
    "8", "0", "4", "2", "3", "8", "9", "1", "0", "1", "8", "6", "7", "2", "3", "4",
    "8", "4", "9", "7", "6", "6", "8", "2", "3", "5", "0", "8", "9", "8", "6", "3",
    "3", "8", "8", "5", "8", "7", "9", "2", "5", "6", "2", "8", "3", "0", "2", "7",
    "5", "5", "9", "9", "5", "6", "5", "7", "5", "2", "4", "4", "5", "5", "5", "0",
    "7", "2", "5", "5", "1", "8", "9", "3", "1", "3", "6", "9", "0", "8", "3", "6",
    "2", "5", "4", "7", "7", "9", "1", "8", "6", "9", "4", "8", "6", "6", "7", "9",
    "9", "4", "9", "6", "8", "3", "2", "4", "0", "4", "9", "7", "0", "5", "8", "2",
    "1", "0", "2", "8", "5", "1", "3", "1", "8", "5", "4", "5", "1", "3", "9", "6",
    "2", "1", "3", "8", "3", "7", "7", "2", "2", "8", "2", "6", "1", "4", "5", "4",
    "3", "7", "6", "9", "3", "4", "1", "2", "5", "3", "2", "0", "9", "8", "5", "9",
    "1", "3", "2", "7", "6", "6", "7", "2", "3", "6", "3", "2", "8", "1", "2", "5">>

\* digit text a, read as the fraction 0.a, is greater than 0.b
FractionGreater(a, b) ==
    LET n == IF Len(a) > Len(b) THEN Len(a) ELSE Len(b)
        At(s, i) == IF i <= Len(s) THEN DigitValue(s[i]) ELSE 0
    IN \E i \in 1..n :
          /\ At(a, i) > At(b, i)
          /\ \A q \in 1..(i - 1) : At(a, q) = At(b, q)

\* an unsigned decimal literal (digits, an optional point, an optional exponent)
\* whose value, rounded to a double as StringToNumber rounds it, is above zero
DecimalPositive(u) ==
    LET es == {i \in 1..Len(u) : u[i] \in {"e", "E"}}
        cut == IF es = {} THEN Len(u) + 1 ELSE CHOOSE i \in es : \A q \in es : i <= q
        mant == SubSeq(u, 1, cut - 1)
        expo == SubSeq(u, cut + 1, Len(u))
        negative == expo # <<>> /\ expo[1] = "-"
        exdigits == IF expo # <<>> /\ expo[1] \in {"+", "-"} THEN Tail(expo) ELSE expo
        points == {i \in 1..Len(mant) : mant[i] = "."}
        point == IF points = {} THEN Len(mant) + 1 ELSE CHOOSE i \in points : TRUE
        whole == SubSeq(mant, 1, point - 1)
        digits == whole \o SubSeq(mant, point + 1, Len(mant))
        sig == StripZeros(digits)
    IN
    /\ AllIn(mant, DigitSet \cup {"."})
    /\ Cardinality(points) <= 1
    /\ sig # <<>>
    /\ es # {} => (exdigits # <<>> /\ AllIn(exdigits, DigitSet))
    /\ LET exsig == StripZeros(exdigits)
           \* from eight digits on the exponent alone decides on which side of
           \* the smallest double the value lies, for a mantissa of fewer than
           \* ten million digits
           size == IF Len(exsig) > 7 THEN 10000000 ELSE DigitsToNat(exsig)
           e == IF es = {} THEN 0 ELSE IF negative THEN 0 - size ELSE size
           \* the value is 0.sig * 10^scale
           scale == Len(whole) - (Len(digits) - Len(sig)) + e
       IN \/ scale > 0 - 323
          \/ scale = 0 - 323 /\ FractionGreater(sig, HalfMinDigits)

\* Number(text) > 0
StrPositive(s) ==
    LET u == Trim(s)
        b == IF u # <<>> /\ u[1] = "+" THEN Tail(u) ELSE u
    IN \/ RadixPositive(u)
       \/ b = <<"I", "n", "f", "i", "n", "i", "t", "y">>
       \/ DecimalPositive(b)

\* value > 0: the value is converted to a number; an array goes through its
\* text, an object and undefined give NaN
GreaterThanZero(j) ==
    CASE j.t = "num" -> j.v > 0
      [] j.t = "bool" -> j.v
      [] j.t = "str" -> StrPositive(j.v)
      [] j.t = "arr" -> ~ToStringThrows(j) /\ StrPositive(ToText(j))
      [] OTHER -> FALSE

HasKey(j, k) == IsObj(j) /\ k \in DOMAIN j.v

IsStrArray(j) == IsArr(j) /\ \A i \in 1..Len(j.v) : IsStr(j.v[i])

\* the array of strings a validated JSON array of strings denotes
StrArray(j) == [i \in 1..Len(j.v) |-> j.v[i].v]

\* summary.ts:161
LitFullTranscriptAvailable ==
    <<"F", "u", "l", "l", " ", "t", "r", "a", "n", "s", "c", "r", "i", "p", "t", " ", "a", "v",
    "a", "i", "l", "a", "b", "l", "e">>

\* summary.ts:162
LitSeeTranscript ==
    <<"S", "e", "e", " ", "t", "r", "a", "n", "s", "c", "r", "i", "p", "t">>

\* summary.ts:174
LitSummaryErrorFull ==
    <<"u26A0", "uFE0F", " ", "E", "r", "r", "o", "r", " ", "g", "e", "n", "e", "r", "a", "t",
    "i", "n", "g", " ", "s", "u", "m", "m", "a", "r", "y", " ", "w", "i", "t", "h", " ", "G",
    "R", "O", "Q", ".", " ", "P", "l", "e", "a", "s", "e", " ", "c", "h", "e", "c", "k", " ",
    "l", "o", "g", "s", " ", "o", "r", " ", "t", "r", "y", " ", "a", "g", "a", "i", "n", ".">>

\* summary.ts:175
LitSummaryErrorBullet ==
    <<"S", "u", "m", "m", "a", "r", "y", " ", "g", "e", "n", "e", "r", "a", "t", "i", "o", "n",
    " ", "f", "a", "i", "l", "e", "d", " ", "-", " ", "s", "e", "e", " ", "f", "u", "l", "l",
    " ", "t", "r", "a", "n", "s", "c", "r", "i", "p", "t">>

\* summary.ts:176
LitSummaryErrorInsight ==
    <<"E", "r", "r", "o", "r", " ", "o", "c", "c", "u", "r", "r", "e", "d", " ", "d", "u", "r",
    "i", "n", "g", " ", "A", "I", " ", "g", "e", "n", "e", "r", "a", "t", "i", "o", "n">>

\* summary.ts:177
LitSummaryErrorTldr ==
    <<"S", "u", "m", "m", "a", "r", "y", " ", "g", "e", "n", "e", "r", "a", "t", "i", "o", "n",
    " ", "f", "a", "i", "l", "e", "d">>

\* social-posts.ts:195
LitTwitterDefault ==
    <<"N", "e", "w", " ", "p", "o", "d", "c", "a", "s", "t", " ", "e", "p", "i", "s", "o", "d",
    "e", "!">>

\* social-posts.ts:196
LitLinkedinDefault ==
    <<"C", "h", "e", "c", "k", " ", "o", "u", "t", " ", "o", "u", "r", " ", "l", "a", "t", "e",
    "s", "t", " ", "p", "o", "d", "c", "a", "s", "t", ".">>

\* social-posts.ts:197
LitInstagramDefault ==
    <<"N", "e", "w", " ", "e", "p", "i", "s", "o", "d", "e", " ", "o", "u", "t", " ", "n", "o",
    "w", "!", " ", "uF8FF", "u00FC", "u00E9", "u00F4", "u00D4", "u220F", "u00E8">>

\* social-posts.ts:198
LitTiktokDefault ==
    <<"N", "e", "w", " ", "p", "o", "d", "c", "a", "s", "t", "!">>

\* social-posts.ts:199
LitYoutubeDefault ==
    <<"W", "a", "t", "c", "h", " ", "o", "u", "r", " ", "l", "a", "t", "e", "s", "t", " ", "e",
    "p", "i", "s", "o", "d", "e", ".">>

\* social-posts.ts:200
LitFacebookDefault ==
    <<"N", "e", "w", " ", "p", "o", "d", "c", "a", "s", "t", " ", "a", "v", "a", "i", "l", "a",
    "b", "l", "e", "!">>

\* social-posts.ts:219
LitSocialError ==
    <<"u201A", "u00F6", "u2020", "u00D4", "u220F", "u00E8", " ", "E", "r", "r", "o", "r", " ",
    "g", "e", "n", "e", "r", "a", "t", "i", "n", "g", " ", "s", "o", "c", "i", "a", "l", " ",
    "p", "o", "s", "t", ".", " ", "C", "h", "e", "c", "k", " ", "l", "o", "g", "s", " ", "f",
    "o", "r", " ", "d", "e", "t", "a", "i", "l", "s", ".">>

\* unnamed/part_003:171
LitShort1 ==
    <<"P", "o", "d", "c", "a", "s", "t", " ", "E", "p", "i", "s", "o", "d", "e">>

\* unnamed/part_003:171
LitShort2 ==
    <<"N", "e", "w", " ", "P", "o", "d", "c", "a", "s", "t", " ", "E", "p", "i", "s", "o", "d",
    "e">>

\* unnamed/part_003:171
LitShort3 ==
    <<"E", "p", "i", "s", "o", "d", "e", " ", "H", "i", "g", "h", "l", "i", "g", "h", "t",
    "s">>

\* unnamed/part_003:172
LitLong1 ==
    <<"P", "o", "d", "c", "a", "s", "t", " ", "E", "p", "i", "s", "o", "d", "e", " ", "-", " ",
    "F", "u", "l", "l", " ", "D", "i", "s", "c", "u", "s", "s", "i", "o", "n">>

\* unnamed/part_003:172
LitLong2 ==
    <<"D", "e", "e", "p", " ", "D", "i", "v", "e", ":", " ", "E", "p", "i", "s", "o", "d", "e",
    " ", "T", "o", "p", "i", "c", " ", "|", " ", "I", "n", "s", "i", "g", "h", "t", "s">>

\* unnamed/part_003:172
LitLong3 ==
    <<"E", "p", "i", "s", "o", "d", "e", " ", "T", "i", "t", "l", "e", ":", " ", "E", "x", "p",
    "e", "r", "t", " ", "C", "o", "n", "v", "e", "r", "s", "a", "t", "i", "o", "n">>

\* unnamed/part_003:173
LitPod1 ==
    <<"N", "e", "w", " ", "E", "p", "i", "s", "o", "d", "e">>

\* unnamed/part_003:173
LitPod2 ==
    <<"E", "p", "i", "s", "o", "d", "e", " ", "T", "i", "t", "l", "e">>

\* unnamed/part_003:173
LitPod3 ==
    <<"L", "a", "t", "e", "s", "t", " ", "E", "p", "i", "s", "o", "d", "e">>

\* unnamed/part_003:174
LitKw1 ==
    <<"p", "o", "d", "c", "a", "s", "t">>

\* unnamed/part_003:174
LitKw2 ==
    <<"e", "p", "i", "s", "o", "d", "e">>

\* unnamed/part_003:174
LitKw3 ==
    <<"d", "i", "s", "c", "u", "s", "s", "i", "o", "n">>

\* unnamed/part_003:174
LitKw4 ==
    <<"i", "n", "t", "e", "r", "v", "i", "e", "w">>

\* unnamed/part_003:174
LitKw5 ==
    <<"i", "n", "s", "i", "g", "h", "t", "s">>

\* unnamed/part_003:185
LitTitlesErrorShort ==
    <<"u26A0", "uFE0F", " ", "T", "i", "t", "l", "e", " ", "g", "e", "n", "e", "r", "a", "t",
    "i", "o", "n", " ", "f", "a", "i", "l", "e", "d">>

\* unnamed/part_003:186
LitTitlesErrorLong ==
    <<"u26A0", "uFE0F", " ", "T", "i", "t", "l", "e", " ", "g", "e", "n", "e", "r", "a", "t",
    "i", "o", "n", " ", "f", "a", "i", "l", "e", "d", " ", "-", " ", "c", "h", "e", "c", "k",
    " ", "l", "o", "g", "s">>

\* unnamed/part_003:188
LitTitlesErrorKeyword ==
    <<"e", "r", "r", "o", "r">>

\* ------------------------------------------------------------------- inputs

Kinds == {"summary", "social", "titles", "timestamps"}
ZodKinds == {"summary", "social", "titles"}

\* Distance in ms between the starts of consecutive generated chapters.
ChapterStepMs == 61500
\* Start in ms of a first chapter that does not begin the recording.
LateStartMs == 5000

\* One AssemblyAI chapter: { start, headline, summary, gist }
Chapter(i, first) ==
    [start |-> first + i * ChapterStepMs,
     headline |-> <<"H">> \o NumToStr(i),
     summary |-> <<"S">> \o NumToStr(i),
     gist |-> <<"G">> \o NumToStr(i)]

MkChapters(n, first) == [i \in 1..n |-> Chapter(i - 1, first)]

\* few chapters, and chapter counts around and beyond the YouTube cap
SmallCounts == {0, 1, 2, 3}
LargeCounts == {YouTubeMaxChapters, YouTubeMaxChapters + 1, YouTubeMaxChapters + OverCap}

FirstStarts == {0, 999, LateStartMs}

\* transcript.chapters: absent (undefined) or an array
ChapterInputs ==
    {[present |-> FALSE, list |-> <<>>]}
    \cup {[present |-> TRUE, list |-> MkChapters(n, f)] : n \in SmallCounts, f \in FirstStarts}
    \cup {[present |-> TRUE, list |-> MkChapters(n, 0)] : n \in LargeCounts}

TextInputs == {Rep(0), Rep(LongTextLen)}

Transcripts == [text : TextInputs, chapters : ChapterInputs]

\* ------------------------------------------------------------------ replies

\* response.choices?.[0]?.message?.content: absent (undefined or null), the
\* empty string, a text that is not JSON, or the text of the JSON value j.
Content(c, j) == [c |-> c, j |-> j]
AbsentContent == Content("absent", JNull)
EmptyContent == Content("empty", JNull)
GarbageContent == Content("garbage", JNull)
JsonContent(j) == Content("json", j)

A1 == <<"A", "1">>
B2 == <<"B", "2">>

GoodSummary1 ==
    [full |-> JStr(A1), bullets |-> JArr(<<JStr(A1), JStr(B2)>>),
     insights |-> JArr(<<JStr(B2)>>), tldr |-> JStr(B2)]
GoodSummary2 ==
    [full |-> JStr(B2), bullets |-> JArr(<<>>),
     insights |-> JArr(<<JStr(A1)>>), tldr |-> JStr(<<>>)]

SummaryJson ==
    {JObj(GoodSummary1), JObj(GoodSummary2),
     JObj([GoodSummary1 EXCEPT !.tldr = JNum(7)]),
     JObj([GoodSummary1 EXCEPT !.bullets = JStr(A1)]),
     JObj([GoodSummary1 EXCEPT !.insights = JArr(<<JStr(A1), JNull>>)]),
     JObj([full |-> JStr(A1), bullets |-> JArr(<<>>), insights |-> JArr(<<>>)]),
     JObj([full |-> JStr(A1), bullets |-> JArr(<<>>), insights |-> JArr(<<>>),
           tldr |-> JStr(A1), extra |-> JNum(1)]),
     JArr(<<JStr(A1)>>), JNull, JNum(5)}

Posts(tw, other) ==
    [twitter |-> JStr(tw), linkedin |-> JStr(other), instagram |-> JStr(A1),
     tiktok |-> JStr(B2), youtube |-> JStr(other), facebook |-> JStr(A1)]

TwitterLens == {0, 5, TwitterKeep, TwitterLimit, TwitterLimit + 1, TwitterLimit + 20}

SocialJson ==
    {JObj(Posts(Rep(n), A1)) : n \in TwitterLens}
    \cup {JObj(Posts(B2, Rep(TwitterLimit + 1))),
          JObj([Posts(A1, B2) EXCEPT !.twitter = JNum(280)]),
          JObj([Posts(A1, B2) EXCEPT !.facebook = JNull]),
          JObj([twitter |-> JStr(A1), linkedin |-> JStr(A1), instagram |-> JStr(A1),
                tiktok |-> JStr(A1), youtube |-> JStr(A1)]),
          JNull, JStr(A1)}

StrList(n, c) == JArr([i \in 1..n |-> JStr(<<c>> \o NumToStr(i))])

TitlesObj(a, b, c, d) ==
    [youtubeShort |-> StrList(a, "s"), youtubeLong |-> StrList(b, "l"),
     podcastTitles |-> StrList(c, "p"), seoKeywords |-> StrList(d, "k")]

TitlesJson ==
    {JObj(TitlesObj(3, 3, 3, d)) : d \in {4, 5, 7, 10, 11}}
    \cup {JObj(TitlesObj(2, 3, 3, 5)), JObj(TitlesObj(4, 3, 3, 5)),
          JObj(TitlesObj(3, 2, 3, 5)), JObj(TitlesObj(3, 3, 4, 5)),
          JObj([TitlesObj(3, 3, 3, 5) EXCEPT !.youtubeShort = JArr(<<JStr(A1), JNum(2), JStr(A1)>>)]),
          JObj([TitlesObj(3, 3, 3, 5) EXCEPT !.seoKeywords = JStr(A1)]),
          JObj([youtubeShort |-> StrList(3, "s"), youtubeLong |-> StrList(3, "l"),
                podcastTitles |-> StrList(3, "p")]),
          JNull, JArr(<<>>)}

\* entries a reply's titles array is made of
TitleEntry(i, t) == JObj([index |-> i, title |-> t])

TitleEntries ==
    {TitleEntry(JNum(i), JStr(t)) : i \in {0, 1}, t \in {A1, <<>>}}
    \cup {TitleEntry(JNum(YouTubeMaxChapters), JStr(A1)), TitleEntry(JNum(0), JStr(B2)), TitleEntry(JStr(<<"0">>), JStr(A1)),
          TitleEntry(JNum(0), JNum(7)), JObj([index |-> JNum(1)]), JNull, JNum(3)}

TitleLists == UNION {[1..n -> TitleEntries] : n \in 0..MaxReplyTitles}

\* a value whose conversion to text throws
Unprintable == JObj([toString |-> JNum(1)])

\* length properties of a titles value that is an object
OddLengths ==
    {JNum(0), JNum(1), JStr(<<"5">>), JStr(A1), JArr(<<JNum(1)>>), Unprintable,
     JArr(<<Unprintable>>), JStr(<<"\f", "5">>), JStr(<<"1", "e", "-", "4", "0", "0">>)}

TimestampsJson ==
    {JObj([titles |-> JArr(l)]) : l \in TitleLists}
    \cup {JObj([titles |-> JStr(A1)]), JObj([titles |-> JNum(5)]), JObj([titles |-> JNull]),
          JObj([titles |-> JStr(<<>>)]), JObj([titles |-> JObj([index |-> JNum(0)])]),
          JObj([chapters |-> JArr(<<>>)]), JNull, JNum(5), JStr(A1), JArr(<<>>)}
    \cup {JObj([titles |-> JObj([length |-> l])]) : l \in OddLengths}
    \cup {JObj([titles |-> JArr(<<TitleEntry(JNum(i), Unprintable)>>)]) : i \in {0, 1, 3}}
    \cup {JObj([titles |-> JArr(<<TitleEntry(JNum(0), t)>>)]) :
             t \in {JArr(<<Unprintable>>), JObj([valueOf |-> JNum(1)]), JArr(<<>>)}}
    \cup {JObj([titles |-> JBool(TRUE)])}

KindJson(k) ==
    CASE k = "summary" -> SummaryJson
      [] k = "social" -> SocialJson
      [] k = "titles" -> TitlesJson
      [] OTHER -> TimestampsJson

\* what a completion call can return for a request of kind k
Replies(k) ==
    {AbsentContent, EmptyContent, GarbageContent} \cup {JsonContent(j) : j \in KindJson(k)}

\* ------------------------------------------------- parsing and validation

\* mutant: the content is read from a choice the reply does not have
ContentOrEmpty_WrongChoice(reply) == EmptyContent

\* response.choices?.[0]?.message?.content ?? ""
ContentOrEmpty(reply) == IF reply.c = "absent" THEN EmptyContent ELSE reply

DefaultTitlesContent == JsonContent(JObj([titles |-> JArr(<<>>)]))

\* mutant: the first content defaults to the empty string, as the repaired one
ContentOrDefault_EmptyString(reply) == IF reply.c = "absent" THEN EmptyContent ELSE reply

\* response.choices?.[0]?.message?.content || '{"titles":[]}'
ContentOrDefault(reply) ==
    IF reply.c \in {"absent", "empty"} THEN DefaultTitlesContent ELSE reply

\* JSON.parse(content): throws on the empty string and on text that is not JSON
JsonParseThrows(content) == content.c # "json"
JsonParse(content) == content.j

\* summarySchema: { full: string, bullets: string[], insights: string[], tldr: string }
SummaryAccepts(j) ==
    /\ IsObj(j)
    /\ {"full", "bullets", "insights", "tldr"} \subseteq DOMAIN j.v
    /\ IsStr(j.v.full) /\ IsStr(j.v.tldr)
    /\ IsStrArray(j.v.bullets) /\ IsStrArray(j.v.insights)

SummaryValue(j) ==
    [full |-> j.v.full.v, bullets |-> StrArray(j.v.bullets),
     insights |-> StrArray(j.v.insights), tldr |-> j.v.tldr.v]

SocialKeys == {"twitter", "linkedin", "instagram", "tiktok", "youtube", "facebook"}

\* socialPostsSchema: six string fields; the twitter cap is enforced after validation
SocialAccepts(j) ==
    /\ IsObj(j)
    /\ SocialKeys \subseteq DOMAIN j.v
    /\ \A k \in SocialKeys : IsStr(j.v[k])

SocialValue(j) == [k \in SocialKeys |-> j.v[k].v]

TitlesCount == 3
MinKeywords == 5
MaxKeywords == 10

\* titlesSchema: three arrays of exactly 3 strings, 5 to 10 keywords
TitlesAccepts(j) ==
    /\ IsObj(j)
    /\ {"youtubeShort", "youtubeLong", "podcastTitles", "seoKeywords"} \subseteq DOMAIN j.v
    /\ IsStrArray(j.v.youtubeShort) /\ Len(j.v.youtubeShort.v) = TitlesCount
    /\ IsStrArray(j.v.youtubeLong) /\ Len(j.v.youtubeLong.v) = TitlesCount
    /\ IsStrArray(j.v.podcastTitles) /\ Len(j.v.podcastTitles.v) = TitlesCount
    /\ IsStrArray(j.v.seoKeywords)
    /\ Len(j.v.seoKeywords.v) >= MinKeywords /\ Len(j.v.seoKeywords.v) <= MaxKeywords

TitlesValue(j) ==
    [youtubeShort |-> StrArray(j.v.youtubeShort), youtubeLong |-> StrArray(j.v.youtubeLong),
     podcastTitles |-> StrArray(j.v.podcastTitles), seoKeywords |-> StrArray(j.v.seoKeywords)]

SchemaAccepts(k, j) ==
    CASE k = "summary" -> SummaryAccepts(j)
      [] k = "social" -> SocialAccepts(j)
      [] OTHER -> TitlesAccepts(j)

SchemaValue(k, j) ==
    CASE k = "summary" -> SummaryValue(j)
      [] k = "social" -> SocialValue(j)
      [] OTHER -> TitlesValue(j)

\* JSON.parse(content) followed by schema.parse(parsed): does either throw?
ParseOrValidationFails(k, reply) ==
    \/ JsonParseThrows(ContentOrEmpty(reply))
    \/ ~SchemaAccepts(k, JsonParse(ContentOrEmpty(reply)))

ParsedValue(k, reply) == SchemaValue(k, JsonParse(ContentOrEmpty(reply)))

\* Timestamps: JSON.parse(content) and parsed.titles.
\* Reading .titles of null throws; of any other value it is undefined.
ParseTitlesThrows(content) ==
    JsonParseThrows(content) \/ JsonParse(content).t = "null"

\* parsed.titles || []
TitlesOf(content) ==
    LET parsed == JsonParse(content) IN
    IF HasKey(parsed, "titles") /\ Truthy(parsed.v.titles) THEN parsed.v.titles ELSE JArr(<<>>)

\* console.log(`... ${aiTitles.length} ...`) throws when the length has no text
LogLengthThrows(titles) == ToStringThrows(LengthOf(titles))

\* if (aiTitles.length > 0) aiTitles.slice(0, 3): only arrays and strings have
\* a slice method
SliceThrows(titles) ==
    GreaterThanZero(LengthOf(titles)) /\ titles.t \notin {"arr", "str"}

\* the try block of the first reply (lines 164-171) throws: at JSON.parse, at
\* parsed.titles, at the log of the length or at the slice of the first titles
TitlesReadThrows(content) ==
    IF ParseTitlesThrows(content) THEN TRUE
    ELSE LogLengthThrows(TitlesOf(content)) \/ SliceThrows(TitlesOf(content))

\* the try block of the repair reply (lines 198-201) throws: at JSON.parse, at
\* repairedParsed.titles or at the log of the length
RepairReadThrows(content) ==
    IF ParseTitlesThrows(content) THEN TRUE
    ELSE LogLengthThrows(TitlesOf(content))

\* ------------------------------------------------------------------ prompts

ChaptersOrEmpty(tr) == IF tr.chapters.present THEN tr.chapters.list ELSE <<>>

\* buildSummaryPrompt and buildTitlesPrompt read transcript.chapters.length,
\* which throws when chapters is undefined
PromptThrows(k, tr) == k \in {"summary", "titles"} /\ ~tr.chapters.present

buildSummaryPrompt(tr) ==
    LET chs == ChaptersOrEmpty(tr) IN
    [template |-> "summary",
     text |-> Substring0(tr.text, SummaryTextLen),
     chapters |-> [i \in 1..Len(chs) |->
                     [n |-> i, headline |-> chs[i].headline, summary |-> chs[i].summary]]]

buildTitlesPrompt(tr) ==
    LET chs == ChaptersOrEmpty(tr) IN
    [template |-> "titles",
     text |-> Substring0(tr.text, TitlesTextLen),
     chapters |-> [i \in 1..Len(chs) |-> [n |-> i, headline |-> chs[i].headline]]]

LitNoSummary ==
    <<"N", "o", " ", "s", "u", "m", "m", "a", "r", "y", " ", "a", "v", "a", "i", "l", "a", "b",
    "l", "e", ".">>

\* transcript.chapters?.[0]?.summary || transcript.text?.substring(0, 500) || "No summary available."
SocialSummaryLine(tr) ==
    IF Len(ChaptersOrEmpty(tr)) > 0 /\ ChaptersOrEmpty(tr)[1].summary # <<>>
    THEN ChaptersOrEmpty(tr)[1].summary
    ELSE IF Substring0(tr.text, SocialTextLen) # <<>>
         THEN Substring0(tr.text, SocialTextLen)
         ELSE LitNoSummary

\* mutant: the topics list every chapter, without the slice
buildSocialPrompt_AllChapters(tr) ==
    LET used == ChaptersOrEmpty(tr) IN
    [template |-> "social",
     summary |-> SocialSummaryLine(tr),
     topics |-> [i \in 1..Len(used) |-> [n |-> i, headline |-> used[i].headline]],
     seeTranscript |-> (Len(used) = 0)]

\* transcript.chapters?.slice(0, 5).map(...).join("\n") || "See transcript"
buildSocialPrompt(tr) ==
    LET used == Substring0(ChaptersOrEmpty(tr), SocialTopicCount) IN
    [template |-> "social",
     summary |-> SocialSummaryLine(tr),
     topics |-> [i \in 1..Len(used) |-> [n |-> i, headline |-> used[i].headline]],
     seeTranscript |-> (Len(used) = 0)]

\* mutant: the chapters are used without the cap
chaptersToUse_NoSlice(tr) == ChaptersOrEmpty(tr)

\* chapters.slice(0, 100)
chaptersToUse(tr) == Substring0(ChaptersOrEmpty(tr), YouTubeMaxChapters)

MsPerSecond == 1000

\* chaptersToUse.map((chapter, idx) => ({ index, timestamp: Math.floor(start / 1000), ... }))
chapterData(tr) ==
    LET used == chaptersToUse(tr) IN
    [i \in 1..Len(used) |->
        [index |-> i - 1,
         timestamp |-> used[i].start \div MsPerSecond,
         headline |-> used[i].headline,
         summary |-> used[i].summary,
         gist |-> used[i].gist]]

\* the timestamps prompt: the chapter count and one block per used chapter
buildTimestampsPrompt(tr) ==
    LET data == chapterData(tr) IN
    [template |-> "youtube-titles",
     count |-> Len(data),
     chapters |-> [i \in 1..Len(data) |->
                     [idx |-> i - 1, timestamp |-> data[i].timestamp,
                      headline |-> data[i].headline, summary |-> data[i].summary]]]

buildPrompt(k, tr) ==
    CASE k = "summary" -> buildSummaryPrompt(tr)
      [] k = "social" -> buildSocialPrompt(tr)
      [] k = "titles" -> buildTitlesPrompt(tr)
      [] OTHER -> buildTimestampsPrompt(tr)

\* -------------------------------------------------------- completion calls

\* temperatures are in hundredths (0.2 is 20, 0.15 is 15)
Call(step, system, user, temperature, maxTokens) ==
    [step |-> step, model |-> "llama-3.1-70b-versatile", system |-> system, user |-> user,
     temperature |-> temperature, max_tokens |-> maxTokens]

RepairUser(k) == [template |-> "repair-" \o k]

\* the first step.ai.wrap call of each generation function
FirstCall(k, tr) ==
    CASE k = "summary" ->
           Call("generate-summary-with-groq", "SUMMARY_SYSTEM_PROMPT", buildPrompt(k, tr), 20, 800)
      [] k = "social" ->
           Call("generate-social-posts-with-groq", "SOCIAL_SYSTEM_PROMPT", buildPrompt(k, tr), 20, 800)
      [] k = "titles" ->
           Call("generate-titles-with-groq", "TITLES_SYSTEM_PROMPT", buildPrompt(k, tr), 20, 400)
      [] OTHER ->
           Call("generate-youtube-titles-with-groq", "YOUTUBE_TITLES_SYSTEM", buildPrompt(k, tr), 15, 1500)

\* mutant: the repair call is sent with the first call's sampling settings
RepairCall_FirstSettings(k) ==
    CASE k = "summary" ->
          Call("repair-summary-json", "SUMMARY_SYSTEM_PROMPT", RepairUser(k), 20, 800)
      [] k = "social" ->
           Call("repair-social-posts-json", "SOCIAL_SYSTEM_PROMPT", RepairUser(k), 20, 800)
      [] k = "titles" ->
           Call("repair-titles-json", "TITLES_SYSTEM_PROMPT", RepairUser(k), 20, 400)
      [] OTHER ->
           Call("repair-youtube-titles-json", "YOUTUBE_REPAIR_SYSTEM", RepairUser(k), 15, 1500)

\* mutant: every repair call has a system prompt of its own, as the timestamps one
RepairCall_OwnSystem(k) ==
    CASE k = "summary" ->
          Call("repair-summary-json", "SUMMARY_REPAIR_SYSTEM", RepairUser(k), 0, 600)
      [] k = "social" ->
           Call("repair-social-posts-json", "SOCIAL_REPAIR_SYSTEM", RepairUser(k), 0, 600)
      [] k = "titles" ->
           Call("repair-titles-json", "TITLES_REPAIR_SYSTEM", RepairUser(k), 0, 300)
      [] OTHER ->
           Call("repair-youtube-titles-json", "YOUTUBE_REPAIR_SYSTEM", RepairUser(k), 0, 800)

\* the repair step.ai.wrap call of each generation function
RepairCall(k) ==
    CASE k = "summary" ->
          Call("repair-summary-json", "SUMMARY_SYSTEM_PROMPT", RepairUser(k), 0, 600)
      [] k = "social" ->
           Call("repair-social-posts-json", "SOCIAL_SYSTEM_PROMPT", RepairUser(k), 0, 600)
      [] k = "titles" ->
           Call("repair-titles-json", "TITLES_SYSTEM_PROMPT", RepairUser(k), 0, 300)
      [] OTHER ->
           Call("repair-youtube-titles-json", "YOUTUBE_REPAIR_SYSTEM", RepairUser(k), 0, 800)

RepairSteps ==
    {"repair-summary-json", "repair-social-posts-json", "repair-titles-json",
     "repair-youtube-titles-json"}

IsRepairCall(c) == c.step \in RepairSteps

\* ---------------------------------------------------------------- fallbacks

\* summary.ts:159-164  the summary used when the repair attempt fails
SummaryRepairFallback(tr) ==
    [full |-> Substring0(tr.text, FallbackFullLen),
     bullets |-> <<LitFullTranscriptAvailable>>,
     insights |-> <<LitSeeTranscript>>,
     tldr |-> Substring0(tr.text, FallbackTldrLen)]

\* summary.ts:173-178  the summary returned from the outer catch
SummaryErrorFallback ==
    [full |-> LitSummaryErrorFull,
     bullets |-> <<LitSummaryErrorBullet>>,
     insights |-> <<LitSummaryErrorInsight>>,
     tldr |-> LitSummaryErrorTldr]

SocialRepairFallback ==
    [twitter |-> LitTwitterDefault, linkedin |-> LitLinkedinDefault,
     instagram |-> LitInstagramDefault, tiktok |-> LitTiktokDefault,
     youtube |-> LitYoutubeDefault, facebook |-> LitFacebookDefault]

SocialErrorFallback == [k \in SocialKeys |-> LitSocialError]

TitlesRepairFallback ==
    [youtubeShort |-> <<LitShort1, LitShort2, LitShort3>>,
     youtubeLong |-> <<LitLong1, LitLong2, LitLong3>>,
     podcastTitles |-> <<LitPod1, LitPod2, LitPod3>>,
     seoKeywords |-> <<LitKw1, LitKw2, LitKw3, LitKw4, LitKw5>>]

TitlesErrorFallback ==
    [youtubeShort |-> <<LitTitlesErrorShort>>,
     youtubeLong |-> <<LitTitlesErrorLong>>,
     podcastTitles |-> <<LitTitlesErrorShort>>,
     seoKeywords |-> <<LitTitlesErrorKeyword>>]

\* mutant: every kind's fallback quotes the transcript, as the summary's does
RepairFallback_QuotesTranscript(k, tr) ==
    CASE k = "summary" -> SummaryRepairFallback(tr)
      [] k = "social" ->
           [SocialRepairFallback EXCEPT !.linkedin = Substring0(tr.text, FallbackFullLen)]
      [] OTHER ->
           [TitlesRepairFallback EXCEPT
              !.podcastTitles = <<Substring0(tr.text, FallbackTldrLen)>>]

\* the value assigned in the inner catch (repairError)
RepairFallback(k, tr) ==
    CASE k = "summary" -> SummaryRepairFallback(tr)
      [] k = "social" -> SocialRepairFallback
      [] OTHER -> TitlesRepairFallback

\* the value returned from the outer catch (error)
ErrorFallback(k) ==
    CASE k = "summary" -> SummaryErrorFallback
      [] k = "social" -> SocialErrorFallback
      [] OTHER -> TitlesErrorFallback

\* mutant: the cut keeps 280 characters before the ellipsis is appended
TruncateTwitter_KeepsLimit(posts) ==
    IF Len(posts.twitter) > TwitterLimit
    THEN [posts EXCEPT !.twitter = Substring0(posts.twitter, TwitterLimit) \o Ellipsis]
    ELSE posts

\* mutant: the cut is applied to every twitter text, the length is not tested
TruncateTwitter_Always(posts) ==
    [posts EXCEPT !.twitter = Substring0(posts.twitter, TwitterKeep) \o Ellipsis]

\* social-posts.ts:206-211  enforce Twitter's 280-character limit
TruncateTwitter(posts) ==
    IF Len(posts.twitter) > TwitterLimit
    THEN [posts EXCEPT !.twitter = Substring0(posts.twitter, TwitterKeep) \o Ellipsis]
    ELSE posts

\* mutant: the accepted value is returned as validated, the cap is never applied
Finish_NoTruncate(k, value) == value

\* what happens to the accepted value between the try block and the return
Finish(k, value) == IF k = "social" THEN TruncateTwitter(value) ELSE value

\* ----------------------------------------------- timestamps: combine titles

RECURSIVE FindFrom(_, _, _)
\* aiTitles.find((t) => t.index === idx) over an array, from position pos:
\* reading .index of a null entry throws; the first entry whose index is the
\* number idx is the result
FindFrom(list, pos, idx) ==
    IF pos > Len(list) THEN [st |-> "none", e |-> JNull]
    ELSE IF list[pos].t = "null" THEN [st |-> "throws", e |-> JNull]
    ELSE IF HasKey(list[pos], "index") /\ list[pos].v.index = JNum(idx)
         THEN [st |-> "found", e |-> list[pos]]
    ELSE FindFrom(list, pos + 1, idx)

\* mutant: the title of chapter idx is read at position idx of the reply
Find_ByPosition(aiTitles, idx) ==
    IF ~IsArr(aiTitles) THEN [st |-> "throws", e |-> JNull]
    ELSE IF idx + 1 > Len(aiTitles.v) \/ ~IsObj(aiTitles.v[idx + 1])
         THEN [st |-> "none", e |-> JNull]
    ELSE [st |-> "found", e |-> aiTitles.v[idx + 1]]

\* aiTitles.find(...): a value that is not an array has no find method
Find(aiTitles, idx) ==
    IF ~IsArr(aiTitles) THEN [st |-> "throws", e |-> JNull]
    ELSE FindFrom(aiTitles.v, 1, idx)

\* mutant: aiTitle?.title ?? chapter.headline keeps an empty title
DescriptionOf_Nullish(found, headline) ==
    IF found.st = "found" /\ HasKey(found.e, "title")
    THEN found.e.v.title
    ELSE JStr(headline)

\* aiTitle?.title || chapter.headline
DescriptionOf(found, headline) ==
    IF found.st = "found" /\ HasKey(found.e, "title") /\ Truthy(found.e.v.title)
    THEN found.e.v.title
    ELSE JStr(headline)

\* an exception between line 209 and the return: in aiTitles.find, or in the
\* log of lines 226-229, which converts the first three descriptions to text
CombineThrows(data, aiTitles) ==
    \/ \E i \in 1..Len(data) : Find(aiTitles, data[i].index).st = "throws"
    \/ \E i \in 1..Min(3, Len(data)) :
         ToStringThrows(DescriptionOf(Find(aiTitles, data[i].index), data[i].headline))

\* chapterData.map((chapter) => ({ timestamp, description }))
aiTimestamps(data, aiTitles) ==
    [i \in 1..Len(data) |->
        [timestamp |-> data[i].timestamp,
         description |-> DescriptionOf(Find(aiTitles, data[i].index), data[i].headline)]]

SecondsPerMinute == 60
SecondsPerHour == 3600

\* formatTimestamp(seconds, { padHours: false }): "M:SS" below one hour, "H:MM:SS"
\* from one hour on, as the sequence of its numeric fields
formatTimestamp(seconds) ==
    IF seconds < SecondsPerHour
    THEN <<seconds \div SecondsPerMinute, seconds % SecondsPerMinute>>
    ELSE <<seconds \div SecondsPerHour,
           (seconds % SecondsPerHour) \div SecondsPerMinute,
           seconds % SecondsPerMinute>>

\* mutant: the list is built over the reply's titles, one entry per title
youtubeTimestamps_PerTitle(data, aiTitles) ==
    LET items == aiTimestamps(data, aiTitles) IN
    [i \in 1..Min(Len(items), Len(aiTitles.v)) |->
        [timestamp |-> formatTimestamp(items[i].timestamp),
         description |-> items[i].description]]

\* aiTimestamps.map((item) => ({ timestamp: formatTimestamp(...), description }))
youtubeTimestamps(data, aiTitles) ==
    LET items == aiTimestamps(data, aiTitles) IN
    [i \in 1..Len(items) |->
        [timestamp |-> formatTimestamp(items[i].timestamp),
         description |-> items[i].description]]

\* -------------------------------------------------------------------- state

VARIABLES
    transcript,  \* the transcript every request of the run is given
    pc,          \* per kind: "off", "init", "first" (first call in flight),
                 \* "repair" (repair call in flight), "done"
    calls,       \* per kind: the completion calls issued so far, in order
    got,         \* per kind: what each issued call produced, in order
    outcome,     \* per kind: "none", "returned" or "threw"
    result,      \* per kind: the returned value once outcome is "returned"
    aiTitles     \* generateYouTubeTimestamps: its local aiTitles (line 163)

vars == <<transcript, pc, calls, got, outcome, result, aiTitles>>

NoResult == <<>>

Replied(r) == [ev |-> "reply", r |-> r]
Threw == [ev |-> "throw", r |-> AbsentContent]

InitFor(active) ==
    /\ transcript \in Transcripts
    /\ pc = [k \in Kinds |-> IF k \in active THEN "init" ELSE "off"]
    /\ calls = [k \in Kinds |-> <<>>]
    /\ got = [k \in Kinds |-> <<>>]
    /\ outcome = [k \in Kinds |-> "none"]
    /\ result = [k \in Kinds |-> NoResult]
    /\ aiTitles = JArr(<<>>)

\* one generation request, of any kind, per run
Init == \E k \in Kinds : InitFor({k})

Return(k, value) ==
    /\ pc' = [pc EXCEPT ![k] = "done"]
    /\ outcome' = [outcome EXCEPT ![k] = "returned"]
    /\ result' = [result EXCEPT ![k] = value]

Throw(k) ==
    /\ pc' = [pc EXCEPT ![k] = "done"]
    /\ outcome' = [outcome EXCEPT ![k] = "threw"]
    /\ UNCHANGED result

\* mutant: the calls go to one log shared by every request in progress
Issue_SharedLog(k, call, next) ==
    /\ calls' = [j \in Kinds |-> IF j = k \/ pc[j] \in {"first", "repair"}
                                 THEN Append(calls[j], call) ELSE calls[j]]
    /\ pc' = [pc EXCEPT ![k] = next]
    /\ UNCHANGED <<outcome, result>>

Issue(k, call, next) ==
    /\ calls' = [calls EXCEPT ![k] = Append(@, call)]
    /\ pc' = [pc EXCEPT ![k] = next]
    /\ UNCHANGED <<outcome, result>>

Receive(k, event) == got' = [got EXCEPT ![k] = Append(@, event)]

\* ------------------------------- generateSummary / SocialPosts / Titles

\* entry: the prompt is built inside the outer try, then the first call is issued
ZodStart(k) ==
    /\ pc[k] = "init"
    /\ IF PromptThrows(k, transcript)
       THEN Return(k, ErrorFallback(k)) /\ UNCHANGED calls
       ELSE Issue(k, FirstCall(k, transcript), "first")
    /\ UNCHANGED <<transcript, got, aiTitles>>

\* mutant: a first reply that fails goes straight to the fallback, no repair call
ZodFirstReturns_NoRepair(k, r) ==
    /\ pc[k] = "first"
    /\ Receive(k, Replied(r))
    /\ Return(k, Finish(k, IF ParseOrValidationFails(k, r)
                           THEN RepairFallback(k, transcript)
                           ELSE ParsedValue(k, r)))
    /\ UNCHANGED <<transcript, calls, aiTitles>>

\* the first call returns: parse and validate, or issue the repair call
ZodFirstReturns(k, r) ==
    /\ pc[k] = "first"
    /\ Receive(k, Replied(r))
    /\ IF ParseOrValidationFails(k, r)
       THEN Issue(k, RepairCall(k), "repair")
       ELSE Return(k, Finish(k, ParsedValue(k, r))) /\ UNCHANGED calls
    /\ UNCHANGED <<transcript, aiTitles>>

\* mutant: a first call that throws is followed by the repair call
ZodFirstThrows_Repairs(k) ==
    /\ pc[k] = "first"
    /\ Receive(k, Threw)
    /\ Issue(k, RepairCall(k), "repair")
    /\ UNCHANGED <<transcript, aiTitles>>

\* the first call throws: the outer catch returns the error placeholder
ZodFirstThrows(k) ==
    /\ pc[k] = "first"
    /\ Receive(k, Threw)
    /\ Return(k, ErrorFallback(k))
    /\ UNCHANGED <<transcript, calls, aiTitles>>

\* mutant: the repair branch parses the first content again, not the repaired one
ZodRepairReturns_ParsesFirst(k, r) ==
    /\ pc[k] = "repair"
    /\ Receive(k, Replied(r))
    /\ Return(k, Finish(k, IF ParseOrValidationFails(k, got[k][1].r)
                           THEN RepairFallback(k, transcript)
                           ELSE ParsedValue(k, got[k][1].r)))
    /\ UNCHANGED <<transcript, calls, aiTitles>>

\* mutant: a repair reply that fails sends the request back to its first call
ZodRepairReturns_StartsOver(k, r) ==
    /\ pc[k] = "repair"
    /\ Receive(k, Replied(r))
    /\ IF ParseOrValidationFails(k, r)
       THEN Issue(k, FirstCall(k, transcript), "first")
       ELSE Return(k, Finish(k, ParsedValue(k, r))) /\ UNCHANGED calls
    /\ UNCHANGED <<transcript, aiTitles>>

\* mutant: a repair reply that fails starts the request over, as a retry loop
ZodRepairReturns_RetryLoop(k, r) ==
    /\ pc[k] = "repair"
    /\ IF ParseOrValidationFails(k, r)
       THEN /\ got' = [got EXCEPT ![k] = <<>>]
            /\ calls' = [calls EXCEPT ![k] = <<FirstCall(k, transcript)>>]
            /\ pc' = [pc EXCEPT ![k] = "first"]
            /\ UNCHANGED <<outcome, result>>
       ELSE Receive(k, Replied(r)) /\ Return(k, Finish(k, ParsedValue(k, r)))
                                   /\ UNCHANGED calls
    /\ UNCHANGED <<transcript, aiTitles>>

\* the repair call returns: parse and validate, or take the fallback
ZodRepairReturns(k, r) ==
    /\ pc[k] = "repair"
    /\ Receive(k, Replied(r))
    /\ Return(k, Finish(k, IF ParseOrValidationFails(k, r)
                           THEN RepairFallback(k, transcript)
                           ELSE ParsedValue(k, r)))
    /\ UNCHANGED <<transcript, calls, aiTitles>>

\* mutant: a throwing repair call reaches the outer catch, not the inner one
ZodRepairThrows_OuterCatch(k) ==
    /\ pc[k] = "repair"
    /\ Receive(k, Threw)
    /\ Return(k, ErrorFallback(k))
    /\ UNCHANGED <<transcript, calls, aiTitles>>

\* the repair call throws: the inner catch takes the fallback
ZodRepairThrows(k) ==
    /\ pc[k] = "repair"
    /\ Receive(k, Threw)
    /\ Return(k, Finish(k, RepairFallback(k, transcript)))
    /\ UNCHANGED <<transcript, calls, aiTitles>>

\* ------------------------------------------------ generateYouTubeTimestamps

TS == "timestamps"

\* lines 208-239: combine the titles with the chapter timing and return;
\* an exception in the combination is not caught
CombineAndReturn(titles) ==
    LET data == chapterData(transcript) IN
    /\ aiTitles' = titles
    /\ IF CombineThrows(data, titles)
       THEN Throw(TS)
       ELSE Return(TS, youtubeTimestamps(data, titles))

\* mutant: the chapters check is missing
TsStart_NoCheck ==
    /\ pc[TS] = "init"
    /\ Issue(TS, FirstCall(TS, transcript), "first")
    /\ UNCHANGED <<transcript, got, aiTitles>>

\* entry: no chapters is an error; otherwise the first call is issued
TsStart ==
    /\ pc[TS] = "init"
    /\ IF Len(ChaptersOrEmpty(transcript)) = 0
       THEN Throw(TS) /\ UNCHANGED calls
       ELSE Issue(TS, FirstCall(TS, transcript), "first")
    /\ UNCHANGED <<transcript, got, aiTitles>>

\* the first call returns: parse, or issue the repair call
TsFirstReturns(r) ==
    /\ pc[TS] = "first"
    /\ Receive(TS, Replied(r))
    /\ IF TitlesReadThrows(ContentOrDefault(r))
       THEN /\ Issue(TS, RepairCall(TS), "repair")
            \* line 166 has assigned aiTitles when the throw comes after it
            /\ aiTitles' = IF ParseTitlesThrows(ContentOrDefault(r)) THEN aiTitles
                           ELSE TitlesOf(ContentOrDefault(r))
       ELSE CombineAndReturn(TitlesOf(ContentOrDefault(r))) /\ UNCHANGED calls
    /\ UNCHANGED transcript

\* the first call throws: nothing catches it
TsFirstThrows ==
    /\ pc[TS] = "first"
    /\ Receive(TS, Threw)
    /\ Throw(TS)
    /\ UNCHANGED <<transcript, calls, aiTitles>>

\* mutant: a failed repair is repaired again
TsRepairReturns_Retries(r) ==
    /\ pc[TS] = "repair"
    /\ Receive(TS, Replied(r))
    /\ IF RepairReadThrows(ContentOrEmpty(r))
       THEN Issue(TS, RepairCall(TS), "repair") /\ UNCHANGED aiTitles
       ELSE CombineAndReturn(TitlesOf(ContentOrEmpty(r))) /\ UNCHANGED calls
    /\ UNCHANGED transcript

\* the repair call returns: parse, or continue with no titles
TsRepairReturns(r) ==
    /\ pc[TS] = "repair"
    /\ Receive(TS, Replied(r))
    /\ CombineAndReturn(IF RepairReadThrows(ContentOrEmpty(r))
                        THEN JArr(<<>>)
                        ELSE TitlesOf(ContentOrEmpty(r)))
    /\ UNCHANGED <<transcript, calls>>

\* the repair call throws: the catch continues with no titles
TsRepairThrows ==
    /\ pc[TS] = "repair"
    /\ Receive(TS, Threw)
    /\ CombineAndReturn(JArr(<<>>))
    /\ UNCHANGED <<transcript, calls>>

\* ------------------------------------------------------------ specification

Next ==
    \/ \E k \in ZodKinds : ZodStart(k)
    \/ \E k \in ZodKinds : \E r \in Replies(k) : ZodFirstReturns(k, r)
    \/ \E k \in ZodKinds : ZodFirstThrows(k)
    \/ \E k \in ZodKinds : \E r \in Replies(k) : ZodRepairReturns(k, r)
    \/ \E k \in ZodKinds : ZodRepairThrows(k)
    \/ TsStart
    \/ \E r \in Replies(TS) : TsFirstReturns(r)
    \/ TsFirstThrows
    \/ \E r \in Replies(TS) : TsRepairReturns(r)
    \/ TsRepairThrows

Spec == Init /\ [][Next]_vars

\* ---------------------------------------- specification: prompt building

\* texts as long as, and one character longer than, each prompt's text budget
PromptTexts ==
    {Rep(0), Rep(SocialTextLen), Rep(SocialTextLen + 1), Rep(TitlesTextLen + 1),
     Rep(SummaryTextLen), Rep(SummaryTextLen + 1)}

\* chapter counts around the social prompt's topic count and the YouTube cap
PromptCounts ==
    {0, 1, SocialTopicCount, SocialTopicCount + 1, YouTubeMaxChapters + 1}

PromptTranscripts ==
    [text : PromptTexts,
     chapters : {[present |-> FALSE, list |-> <<>>]}
                \cup {[present |-> TRUE, list |-> MkChapters(n, 0)] : n \in PromptCounts}]

InitPrompt ==
    /\ transcript \in PromptTranscripts
    /\ \E k \in Kinds : pc = [j \in Kinds |-> IF j = k THEN "init" ELSE "off"]
    /\ calls = [k \in Kinds |-> <<>>]
    /\ got = [k \in Kinds |-> <<>>]
    /\ outcome = [k \in Kinds |-> "none"]
    /\ result = [k \in Kinds |-> NoResult]
    /\ aiTitles = JArr(<<>>)

\* the first step of each generation function: build the prompt, issue the call
NextPrompt ==
    \/ \E k \in ZodKinds : ZodStart(k)
    \/ TsStart

SpecPrompt == InitPrompt /\ [][NextPrompt]_vars

\* ------------------------------- specification: the four requests together

\* one reply of each class per kind: accepted, rejected as JSON, not JSON
ParReplies(k) ==
    CASE k = "summary" ->
           {JsonContent(JObj(GoodSummary1)), JsonContent(JNull), GarbageContent}
      [] k = "social" ->
           {JsonContent(JObj(Posts(Rep(TwitterLimit + 1), A1))),
            JsonContent(JObj([Posts(A1, B2) EXCEPT !.facebook = JNull])), EmptyContent}
      [] k = "titles" ->
           {JsonContent(JObj(TitlesObj(3, 3, 3, 5))), JsonContent(JObj(TitlesObj(2, 3, 3, 5))),
            AbsentContent}
      [] OTHER ->
           {JsonContent(JObj([titles |-> JArr(<<TitleEntry(JNum(0), JStr(A1))>>)])),
            JsonContent(JObj([titles |-> JNum(5)])), GarbageContent}

ParTranscripts ==
    [text : TextInputs,
     chapters : {[present |-> FALSE, list |-> <<>>],
                 [present |-> TRUE, list |-> MkChapters(2, 0)]}]

\* the workflow starts the four generation functions over one transcript
InitPar == InitFor(Kinds) /\ transcript \in ParTranscripts

\* the steps of the four requests, interleaved at their awaits
NextPar ==
    \/ \E k \in ZodKinds : ZodStart(k)
    \/ \E k \in ZodKinds : \E r \in ParReplies(k) : ZodFirstReturns(k, r)
    \/ \E k \in ZodKinds : ZodFirstThrows(k)
    \/ \E k \in ZodKinds : \E r \in ParReplies(k) : ZodRepairReturns(k, r)
    \/ \E k \in ZodKinds : ZodRepairThrows(k)
    \/ TsStart
    \/ \E r \in ParReplies(TS) : TsFirstReturns(r)
    \/ TsFirstThrows
    \/ \E r \in ParReplies(TS) : TsRepairReturns(r)
    \/ TsRepairThrows

SpecPar == InitPar /\ [][NextPar]_vars

\* --------------------------------------- specification: requests that end

\* the steps of the request of kind k
RequestStep(k) ==
    IF k = TS
    THEN \/ TsStart
         \/ \E r \in ParReplies(TS) : TsFirstReturns(r)
         \/ TsFirstThrows
         \/ \E r \in ParReplies(TS) : TsRepairReturns(r)
         \/ TsRepairThrows
    ELSE \/ ZodStart(k)
         \/ \E r \in ParReplies(k) : ZodFirstReturns(k, r)
         \/ ZodFirstThrows(k)
         \/ \E r \in ParReplies(k) : ZodRepairReturns(k, r)
         \/ ZodRepairThrows(k)

\* any two of the four requests, started together over one transcript
InitFair ==
    /\ transcript \in ParTranscripts
    /\ \E a \in SUBSET Kinds : Cardinality(a) = 2 /\ InitFor(a)

\* Requests each of whose steps eventually happens, whatever the other request
\* does: the code between two awaits runs to the next await, and every issued
\* completion call is assumed to settle, with a reply or with an error.
FairSpec == InitFair /\ [][NextPar]_vars /\ \A k \in Kinds : WF_vars(RequestStep(k))

\* ------------------------------------------------- vocabulary of the claims

Done(k) == pc[k] = "done"
Returned(k) == pc[k] = "done" /\ outcome[k] = "returned"
IsReply(e) == e.ev = "reply"
HasReply(k, i) == Len(got[k]) >= i /\ IsReply(got[k][i])

StringList(j) == j.t = "arr" /\ \A i \in 1..Len(j.v) : j.v[i].t = "str"
Keys(j, ks) == j.t = "obj" /\ ks \subseteq DOMAIN j.v

\* the declared structure of each kind's reply, without the caps enforced after
\* validation (the 280-character cap of the twitter field)
StructureOk(k, j) ==
    CASE k = "summary" ->
           /\ Keys(j, {"full", "bullets", "insights", "tldr"})
           /\ j.v.full.t = "str" /\ j.v.tldr.t = "str"
           /\ StringList(j.v.bullets) /\ StringList(j.v.insights)
      [] k = "social" ->
           /\ Keys(j, SocialKeys)
           /\ \A f \in SocialKeys : j.v[f].t = "str"
      [] k = "titles" ->
           /\ Keys(j, {"youtubeShort", "youtubeLong", "podcastTitles", "seoKeywords"})
           /\ \A f \in {"youtubeShort", "youtubeLong", "podcastTitles"} :
                StringList(j.v[f]) /\ Len(j.v[f].v) = 3
           /\ StringList(j.v.seoKeywords)
           /\ Len(j.v.seoKeywords.v) \in 5..10
      [] OTHER ->
           /\ Keys(j, {"titles"})
           /\ j.v.titles.t = "arr"
           /\ \A p \in 1..Len(j.v.titles.v) :
                /\ Keys(j.v.titles.v[p], {"index", "title"})
                /\ j.v.titles.v[p].v.index.t = "num"
                /\ j.v.titles.v[p].v.title.t = "str"

\* a reply that is well-formed for the kind's declared shape
WellFormed(k, r) ==
    /\ r.c = "json"
    /\ StructureOk(k, r.j)
    /\ (k = "social" => Len(r.j.v.twitter.v) <= 280)

\* a reply that is not of the kind's declared structure
Malformed(k, r) == ~(r.c = "json" /\ StructureOk(k, r.j))

NumChapters == Len(ChaptersOrEmpty(transcript))
UsedChapters == Min(NumChapters, 100)
Headline(i) == transcript.chapters.list[i].headline

\* the titles of a well-formed timestamps reply are the descriptions: every
\* entry for a used chapter that is the first one of its index and has a
\* non-empty title is the description of that chapter
TitlesAreDescriptions(j) ==
    LET ts == j.v.titles.v IN
    /\ Len(result[TS]) = UsedChapters
    /\ \A p \in 1..Len(ts) :
         (/\ ts[p].v.index.v < UsedChapters
          /\ ts[p].v.title.v # <<>>
          /\ \A q \in 1..(p - 1) : ts[q].v.index.v # ts[p].v.index.v)
         => result[TS][ts[p].v.index.v + 1].description = ts[p].v.title

\* the operation returned the value the well-formed reply content j carries
ReturnedValueOf(k, j) ==
    /\ outcome[k] = "returned"
    /\ IF k = TS THEN TitlesAreDescriptions(j) ELSE result[k] = SchemaValue(k, j)

\* ------------------------------------------------------------------- claims

\* C1: for each of the four operations, a first reply of the kind's declared
\* structure ends the operation at once with exactly one completion call
\* recorded, which is not a repair call; when the reply is well-formed for the
\* kind's shape the operation returns the value the reply carries (timestamps:
\* the reply's titles as the descriptions).
C1_FirstReplyAccepted ==
    \A k \in Kinds :
        (HasReply(k, 1) /\ ~Malformed(k, got[k][1].r))
        => /\ Done(k)
           /\ outcome[k] = "returned"
           /\ Len(got[k]) = 1
           /\ Len(calls[k]) = 1
           /\ ~IsRepairCall(calls[k][1])
           /\ WellFormed(k, got[k][1].r) => ReturnedValueOf(k, got[k][1].r.j)

C1_Witness ==
    /\ Returned(TS)
    /\ NumChapters = 2
    /\ HasReply(TS, 1) /\ WellFormed(TS, got[TS][1].r)
    /\ Len(calls[TS]) = 1
    /\ result[TS][1].description = JStr(B2)
    /\ result[TS][2].description = JStr(A1)

\* C2 as stated: for each of the four operations, a malformed first reply leads
\* to a repair call, and when the repair reply is well-formed the operation
\* returns the repair reply's value with exactly two calls recorded.
C2_Original ==
    \A k \in Kinds :
        (Done(k) /\ HasReply(k, 1) /\ Malformed(k, got[k][1].r))
        => /\ Len(calls[k]) = 2
           /\ IsRepairCall(calls[k][2])
           /\ (HasReply(k, 2) /\ WellFormed(k, got[k][2].r))
              => ReturnedValueOf(k, got[k][2].r.j)

\* a JSON reply whose titles value is neither an array nor a string and whose
\* length property either cannot be written into the log line or compares
\* greater than zero, so that the value is asked for a slice it does not have
TitlesLengthTrips(r) ==
    /\ r.c = "json"
    /\ HasKey(r.j, "titles")
    /\ r.j.v.titles.t = "obj"
    /\ LET len == LengthOf(r.j.v.titles) IN
       ToStringThrows(len) \/ GreaterThanZero(len)

\* the first replies after which the code issues the repair call: for summary,
\* social posts and titles every malformed one; for timestamps only a text that
\* JSON.parse rejects (not JSON and not empty), the JSON value null, or a
\* titles object whose length trips the first try block
TriggersRepair(k, r) ==
    IF k = TS
    THEN r.c = "garbage" \/ (r.c = "json" /\ r.j.t = "null") \/ TitlesLengthTrips(r)
    ELSE Malformed(k, r)

\* C2 amended: when the first reply triggers the repair (any malformed reply for
\* summary, social posts and titles; an unparseable or null reply, or a titles
\* object whose length trips the first try block, for timestamps) exactly one repair call follows the first call, after the first
\* reply arrived, and a well-formed repair reply's value is returned with
\* exactly two calls recorded.
C2_RepairValueReturned ==
    \A k \in Kinds :
        (HasReply(k, 1) /\ TriggersRepair(k, got[k][1].r))
        => /\ Len(calls[k]) = 2
           /\ ~IsRepairCall(calls[k][1]) /\ IsRepairCall(calls[k][2])
           /\ (HasReply(k, 2) /\ WellFormed(k, got[k][2].r))
              => (Done(k) /\ Len(got[k]) = 2 /\ ReturnedValueOf(k, got[k][2].r.j))

C2_Witness ==
    /\ Returned("summary")
    /\ HasReply("summary", 1) /\ Malformed("summary", got["summary"][1].r)
    /\ HasReply("summary", 2) /\ WellFormed("summary", got["summary"][2].r)
    /\ Len(calls["summary"]) = 2
    /\ result["summary"] = SummaryValue(JObj(GoodSummary2))

\* every description is the original headline of its chapter
AllHeadlines ==
    /\ Len(result[TS]) = UsedChapters
    /\ \A i \in 1..UsedChapters : result[TS][i].description = JStr(Headline(i))

\* C3 as stated: when the first reply and the repair reply are both malformed,
\* the operation returns the kind's fallback value (timestamps: every
\* description is the chapter's headline) and no exception escapes.
C3_Original ==
    \A k \in Kinds :
        (/\ Done(k)
         /\ HasReply(k, 1) /\ Malformed(k, got[k][1].r)
         /\ HasReply(k, 2) /\ Malformed(k, got[k][2].r))
        => /\ outcome[k] = "returned"
           /\ IF k = TS THEN AllHeadlines ELSE result[k] = RepairFallback(k, transcript)

\* C4 as stated: a completion call that throws, first or repair, never makes
\* the generation operation throw, for every kind including timestamps.
C4_Original ==
    \A k \in Kinds :
        (Done(k) /\ \E i \in 1..Len(got[k]) : got[k][i].ev = "throw")
        => outcome[k] = "returned"

\* C5 as stated: every value generateTitles returns has exactly 3 youtubeShort,
\* 3 youtubeLong and 3 podcastTitles entries and 5 to 10 seoKeywords.
C5_Original ==
    Returned("titles")
    => /\ Len(result["titles"].youtubeShort) = 3
       /\ Len(result["titles"].youtubeLong) = 3
       /\ Len(result["titles"].podcastTitles) = 3
       /\ Len(result["titles"].seoKeywords) \in 5..10

\* C6: whatever the replies and failures, at most two completion calls are
\* issued per request, at most one of them is a repair call, and a repair call
\* is the last call of its request.
C6_AtMostOneRepair ==
    \A k \in Kinds :
        /\ Len(calls[k]) <= 2
        /\ Cardinality({i \in 1..Len(calls[k]) : IsRepairCall(calls[k][i])}) <= 1
        /\ \A i \in 1..Len(calls[k]) : IsRepairCall(calls[k][i]) => i = Len(calls[k])

C6_Witness ==
    \E k \in Kinds :
        /\ Done(k)
        /\ Len(calls[k]) = 2 /\ IsRepairCall(calls[k][2])
        /\ HasReply(k, 2) /\ Malformed(k, got[k][2].r)

\* C7: generateYouTubeTimestamps with an empty or absent chapters sequence
\* fails before any completion call: no call is recorded, nothing is returned.
C7_NoChaptersThrows ==
    (pc[TS] \notin {"off", "init"}
     /\ (~transcript.chapters.present \/ transcript.chapters.list = <<>>))
    => /\ pc[TS] = "done"
       /\ outcome[TS] = "threw"
       /\ calls[TS] = <<>>
       /\ got[TS] = <<>>
       /\ result[TS] = NoResult

C7_Witness ==
    /\ pc[TS] = "done"
    /\ outcome[TS] = "threw"
    /\ transcript.chapters.present /\ transcript.chapters.list = <<>>
    /\ calls[TS] = <<>>

\* C8: with n >= 1 chapters, the prompt of the first timestamps call holds the
\* first min(n, 100) chapters, in order, and nothing else, and a returned list
\* never has more than 100 entries.
C8_ChapterCap ==
    (NumChapters >= 1 /\ Len(calls[TS]) >= 1)
    => LET p == calls[TS][1].user IN
       /\ p.count = UsedChapters
       /\ Len(p.chapters) = UsedChapters
       /\ \A i \in 1..Len(p.chapters) :
            /\ p.chapters[i].idx = i - 1
            /\ p.chapters[i].headline = Headline(i)
            /\ p.chapters[i].summary = transcript.chapters.list[i].summary
       /\ (Returned(TS) => Len(result[TS]) <= 100)

C8_Witness ==
    /\ Returned(TS)
    /\ NumChapters > 100
    /\ Len(calls[TS][1].user.chapters) = 100
    /\ Len(result[TS]) = 100

\* positions of the accepted titles whose index is the number i
Hits(i) ==
    {p \in 1..Len(aiTitles.v) :
        /\ aiTitles.v[p].t = "obj"
        /\ "index" \in DOMAIN aiTitles.v[p].v
        /\ aiTitles.v[p].v.index = JNum(i)}

FirstHit(i) == aiTitles.v[CHOOSE p \in Hits(i) : \A q \in Hits(i) : p <= q]

NoTitle(e) == "title" \notin DOMAIN e.v \/ e.v.title = JStr(<<>>)

\* C9: for every used chapter i, when the accepted titles have no entry with
\* index i, or that entry has no title or an empty one, the description is the
\* chapter's headline; every other slot keeps the model's title for it.
C9_PerSlotFallback ==
    Returned(TS)
    => /\ aiTitles.t = "arr"
       /\ \A i \in 1..Len(result[TS]) :
            result[TS][i].description =
                IF Hits(i - 1) = {} \/ NoTitle(FirstHit(i - 1))
                THEN JStr(Headline(i))
                ELSE FirstHit(i - 1).v.title

C9_Witness ==
    /\ Returned(TS)
    /\ Len(result[TS]) = 3
    /\ Hits(0) # {} /\ ~NoTitle(FirstHit(0))
    /\ Hits(1) # {} /\ NoTitle(FirstHit(1))
    /\ Hits(2) = {}
    /\ result[TS][1].description = JStr(A1)
    /\ result[TS][2].description = JStr(Headline(2))
    /\ result[TS][3].description = JStr(Headline(3))

\* C10 as stated: whenever generateYouTubeTimestamps returns a list, its first
\* entry's timestamp is 0:00.
C10_Original ==
    Returned(TS) => result[TS][1].timestamp = <<0, 0>>

\* the reply, first or repair, whose content generateSocialPosts accepted: the
\* last one received, when it is of the declared structure
SocialAccepted(i) ==
    /\ Returned("social")
    /\ Len(got["social"]) = i
    /\ HasReply("social", i)
    /\ ~Malformed("social", got["social"][i].r)

AcceptedTwitter(i) == got["social"][i].r.j.v.twitter.v

\* C11: when generateSocialPosts accepts a posts value whose twitter field is
\* longer than 280 characters, the returned twitter field has exactly 280
\* characters: the first 277 characters of the accepted text followed by
\* three dots. The value is truncated, not rejected.
C11_TwitterTruncated ==
    \A i \in {1, 2} :
        (SocialAccepted(i) /\ Len(AcceptedTwitter(i)) > 280)
        => /\ Len(result["social"].twitter) = 280
           /\ \A p \in 1..277 : result["social"].twitter[p] = AcceptedTwitter(i)[p]
           /\ \A p \in 278..280 : result["social"].twitter[p] = "."
           /\ \A f \in SocialKeys \ {"twitter"} :
                result["social"][f] = got["social"][i].r.j.v[f].v

C11_Witness ==
    /\ SocialAccepted(1)
    /\ Len(AcceptedTwitter(1)) = 300
    /\ Len(result["social"].twitter) = 280
    /\ Len(calls["social"]) = 1

\* C12: every value generateSocialPosts returns, on every return path (first
\* reply accepted, repair reply accepted, fallback after a failed repair,
\* placeholder after a thrown error), has all six platform keys and a twitter
\* field of at most 280 characters.
C12_SocialAlwaysCapped ==
    Returned("social")
    => /\ DOMAIN result["social"] = SocialKeys
       /\ Len(result["social"].twitter) <= 280

C12_Witness ==
    /\ SocialAccepted(2)
    /\ Len(AcceptedTwitter(2)) > 280
    /\ Len(result["social"].twitter) <= 280
    /\ DOMAIN result["social"] = SocialKeys

\* the first titles reply is valid JSON with all four keys, every one a list of
\* strings, but only two youtubeShort entries
TwoShortTitles(r) ==
    /\ r.c = "json"
    /\ Keys(r.j, {"youtubeShort", "youtubeLong", "podcastTitles", "seoKeywords"})
    /\ \A f \in {"youtubeShort", "youtubeLong", "podcastTitles", "seoKeywords"} :
         StringList(r.j.v[f])
    /\ Len(r.j.v.youtubeShort.v) = 2

\* C13: a first generateTitles reply that is valid JSON with all four keys but
\* only two youtubeShort entries is not returned: it is a validation failure
\* and exactly one repair call is issued.
C13_ShortListRepaired ==
    (HasReply("titles", 1) /\ TwoShortTitles(got["titles"][1].r))
    => /\ Len(calls["titles"]) = 2
       /\ IsRepairCall(calls["titles"][2])
       /\ ~IsRepairCall(calls["titles"][1])
       /\ Returned("titles") => /\ Len(got["titles"]) = 2
                                /\ Len(result["titles"].youtubeShort) # 2

C13_Witness ==
    /\ Returned("titles")
    /\ HasReply("titles", 1)
    /\ TwoShortTitles(got["titles"][1].r)
    /\ Len(calls["titles"]) = 2
    /\ Len(result["titles"].youtubeShort) = 3

\* the i-th completion call of kind k failed at the transport level
CallThrew(k, i) == Len(got[k]) >= i /\ got[k][i].ev = "throw"

\* the value the kind returns when the first and the repair reply both fail
\* validation is what the request returned
ReturnedDoubleFailureValue(k) ==
    IF k = TS THEN AllHeadlines ELSE result[k] = RepairFallback(k, transcript)

\* C14 as stated: for each kind, the value returned when a completion call
\* fails at the transport level is the value returned when the first and the
\* repair reply both fail validation.
C14_Original ==
    \A k \in Kinds :
        (Returned(k) /\ (CallThrew(k, 1) \/ CallThrew(k, 2)))
        => ReturnedDoubleFailureValue(k)

\* a repair reply of the timestamps flow that cannot be read: it has no body,
\* is not JSON, is the JSON value null, or carries a titles object whose length
\* cannot be written into the log line
RepairUnreadable(r) ==
    \/ r.c \in {"absent", "empty", "garbage"}
    \/ r.c = "json" /\ r.j.t = "null"
    \/ /\ r.c = "json"
       /\ HasKey(r.j, "titles")
       /\ r.j.v.titles.t = "obj"
       /\ ToStringThrows(LengthOf(r.j.v.titles))

\* C14 amended: for summary, social posts and titles, a transport failure of
\* the repair call returns the value returned when both replies fail
\* validation, and a transport failure of the first call returns another
\* value, the error placeholder of the kind, after one call. For timestamps,
\* a transport failure of the repair call returns the headlines, as does a
\* repair reply that cannot be read after a first reply that triggered the
\* repair.
C14_TwoPlaceholders ==
    /\ \A k \in Kinds :
         (Done(k) /\ CallThrew(k, 2))
         => Returned(k) /\ ReturnedDoubleFailureValue(k) /\ Len(calls[k]) = 2
    /\ (Done(TS) /\ HasReply(TS, 1) /\ TriggersRepair(TS, got[TS][1].r)
                 /\ HasReply(TS, 2) /\ RepairUnreadable(got[TS][2].r))
       => Returned(TS) /\ AllHeadlines /\ Len(calls[TS]) = 2
    /\ \A k \in ZodKinds :
         /\ (Done(k) /\ HasReply(k, 1) /\ Malformed(k, got[k][1].r)
                     /\ HasReply(k, 2) /\ Malformed(k, got[k][2].r))
            => Returned(k) /\ ReturnedDoubleFailureValue(k)
         /\ (Done(k) /\ CallThrew(k, 1))
            => /\ Returned(k)
               /\ result[k] = ErrorFallback(k)
               /\ ~ReturnedDoubleFailureValue(k)
               /\ Len(calls[k]) = 1

C14_Witness ==
    /\ Returned("titles")
    /\ HasReply("titles", 1)
    /\ CallThrew("titles", 2)
    /\ result["titles"] = TitlesRepairFallback
    /\ result["titles"] # TitlesErrorFallback

\* the first and the repair reply both failed validation and the request is over
BothMalformed(k) ==
    /\ Done(k)
    /\ HasReply(k, 1) /\ Malformed(k, got[k][1].r)
    /\ HasReply(k, 2) /\ Malformed(k, got[k][2].r)

\* a fixed transcript to compare against: a value that does not depend on the
\* transcript is the value the same replies give for this one
ReferenceTranscript == [text |-> Rep(0), chapters |-> [present |-> TRUE, list |-> <<>>]]

SameAsForReference(k) == result[k] = RepairFallback(k, ReferenceTranscript)

\* C15 as stated: for summary, social posts and titles, the value returned
\* after both replies fail validation does not depend on the transcript.
C15_Original ==
    \A k \in ZodKinds : BothMalformed(k) => (Returned(k) /\ SameAsForReference(k))

\* C15 amended: after both replies fail validation, the social posts and the
\* titles fallback do not depend on the transcript; the summary fallback has
\* static bullets and insights, and its full and tldr fields are the first 500
\* and the first 200 characters of the transcript text.
C15_SummaryQuotesTranscript ==
    /\ \A k \in {"social", "titles"} :
         BothMalformed(k) => (Returned(k) /\ SameAsForReference(k))
    /\ BothMalformed("summary")
       => /\ Returned("summary")
          /\ DOMAIN result["summary"] = {"full", "bullets", "insights", "tldr"}
          /\ result["summary"].bullets
               = RepairFallback("summary", ReferenceTranscript).bullets
          /\ result["summary"].insights
               = RepairFallback("summary", ReferenceTranscript).insights
          /\ Len(result["summary"].full) = Min(500, Len(transcript.text))
          /\ Len(result["summary"].tldr) = Min(200, Len(transcript.text))
          /\ \A p \in 1..Len(result["summary"].full) :
               result["summary"].full[p] = transcript.text[p]
          /\ \A p \in 1..Len(result["summary"].tldr) :
               result["summary"].tldr[p] = transcript.text[p]

C15_Witness ==
    /\ BothMalformed("summary")
    /\ Len(transcript.text) > 500
    /\ Len(result["summary"].full) = 500
    /\ Len(result["summary"].tldr) = 200
    /\ ~SameAsForReference("summary")

\* C16: for every kind, the repair call is sent with a strictly lower
\* temperature and a strictly smaller max-token budget than the first call of
\* the same request.
C16_RepairIsTighter ==
    \A k \in Kinds :
        \A i \in 1..Len(calls[k]) :
            IsRepairCall(calls[k][i])
            => /\ i = 2
               /\ ~IsRepairCall(calls[k][1])
               /\ calls[k][2].temperature < calls[k][1].temperature
               /\ calls[k][2].max_tokens < calls[k][1].max_tokens

C16_Witness ==
    /\ Len(calls[TS]) = 2
    /\ IsRepairCall(calls[TS][2])
    /\ calls[TS][1].temperature = 15 /\ calls[TS][2].temperature = 0
    /\ calls[TS][1].max_tokens = 1500 /\ calls[TS][2].max_tokens = 800

\* the prompt of the first call of kind k
PromptOf(k) == calls[k][1].user

\* the chapter headlines the prompt of kind k lists, in order
PromptHeadlines(k) ==
    IF k = "social"
    THEN [i \in 1..Len(PromptOf(k).topics) |-> PromptOf(k).topics[i].headline]
    ELSE [i \in 1..Len(PromptOf(k).chapters) |-> PromptOf(k).chapters[i].headline]

\* the part of the prompt of kind k taken from the transcript text: the text
\* block of the summary and titles prompts, the summary line of the social
\* prompt when no chapter supplies it, nothing in the timestamps prompt
PromptText(k) ==
    CASE k \in {"summary", "titles"} -> PromptOf(k).text
      [] k = "social" ->
           IF NumChapters = 0 /\ transcript.text # <<>> THEN PromptOf(k).summary ELSE <<>>
      [] OTHER -> <<>>

IsPrefixOf(s, t) == Len(s) <= Len(t) /\ \A p \in 1..Len(s) : s[p] = t[p]

FirstHeadlines(k, n) ==
    /\ Len(PromptHeadlines(k)) = Min(n, NumChapters)
    /\ \A i \in 1..Len(PromptHeadlines(k)) : PromptHeadlines(k)[i] = Headline(i)

TextPrefix(k, n) ==
    /\ Len(PromptText(k)) = Min(n, Len(transcript.text))
    /\ IsPrefixOf(PromptText(k), transcript.text)

\* C17 as stated: for every kind and every transcript, the built prompt has at
\* most the first 5 chapter headlines (fewer when there are fewer chapters) and
\* at most a prefix of 3000 characters of the transcript text.
C17_Original ==
    \A k \in Kinds :
        Len(calls[k]) >= 1
        => /\ FirstHeadlines(k, 5)
           /\ Len(PromptText(k)) <= 3000
           /\ IsPrefixOf(PromptText(k), transcript.text)

\* C17 amended: only the social posts prompt is limited to the first 5 chapter
\* headlines; the summary and titles prompts list the headline of every
\* chapter and the timestamps prompt those of the first 100. The transcript
\* text enters as a prefix of at most 3000 characters (summary), 2000 (titles)
\* or 500 (social posts, when there is no chapter), and not at all for
\* timestamps.
C17_PromptBounds ==
    \A k \in Kinds :
        Len(calls[k]) >= 1
        => CASE k = "summary" -> FirstHeadlines(k, NumChapters) /\ TextPrefix(k, 3000)
             [] k = "titles" -> FirstHeadlines(k, NumChapters) /\ TextPrefix(k, 2000)
             [] k = "social" ->
                  /\ FirstHeadlines(k, 5)
                  /\ NumChapters = 0 => TextPrefix(k, 500)
             [] OTHER -> FirstHeadlines(k, 100)

C17_Witness ==
    /\ Len(calls["social"]) = 1
    /\ NumChapters = 6
    /\ Len(PromptHeadlines("social")) = 5
    /\ PromptHeadlines("social")[5] = Headline(5)

\* what a request records when it ends
Ended(n, how, value) == [calls |-> n, outcome |-> how, result |-> value]

\* generateSummary, generateSocialPosts or generateTitles run alone over the
\* transcript tr, its calls producing the events g in order
AloneZod(k, tr, g) ==
    IF PromptThrows(k, tr) THEN Ended(0, "returned", ErrorFallback(k))
    ELSE IF g[1].ev = "throw" THEN Ended(1, "returned", ErrorFallback(k))
    ELSE IF ~ParseOrValidationFails(k, g[1].r)
         THEN Ended(1, "returned", Finish(k, ParsedValue(k, g[1].r)))
    ELSE IF g[2].ev = "throw" \/ ParseOrValidationFails(k, g[2].r)
         THEN Ended(2, "returned", Finish(k, RepairFallback(k, tr)))
    ELSE Ended(2, "returned", Finish(k, ParsedValue(k, g[2].r)))

\* the end of generateYouTubeTimestamps once its titles are settled
AloneCombine(n, tr, titles) ==
    IF CombineThrows(chapterData(tr), titles)
    THEN Ended(n, "threw", NoResult)
    ELSE Ended(n, "returned", youtubeTimestamps(chapterData(tr), titles))

\* generateYouTubeTimestamps run alone over tr, its calls producing g
AloneTs(tr, g) ==
    IF Len(ChaptersOrEmpty(tr)) = 0 THEN Ended(0, "threw", NoResult)
    ELSE IF g[1].ev = "throw" THEN Ended(1, "threw", NoResult)
    ELSE IF ~TitlesReadThrows(ContentOrDefault(g[1].r))
         THEN AloneCombine(1, tr, TitlesOf(ContentOrDefault(g[1].r)))
    ELSE IF g[2].ev = "throw" \/ RepairReadThrows(ContentOrEmpty(g[2].r))
         THEN AloneCombine(2, tr, JArr(<<>>))
    ELSE AloneCombine(2, tr, TitlesOf(ContentOrEmpty(g[2].r)))

Alone(k, tr, g) == IF k = TS THEN AloneTs(tr, g) ELSE AloneZod(k, tr, g)

\* C19: when the four operations run interleaved in any order over the same
\* transcript, each one's outcome, result and number of completion calls are
\* those of the same operation run alone with its own replies, whatever the
\* other three received; every call got its event before the request ended.
C19_NoSharedState ==
    \A k \in Kinds :
        Done(k)
        => /\ Len(got[k]) = Len(calls[k])
           /\ Ended(Len(calls[k]), outcome[k], result[k]) = Alone(k, transcript, got[k])

C19_Witness ==
    /\ \A k \in Kinds : Done(k)
    /\ Len(calls["summary"]) = 1 /\ Len(calls["social"]) = 2
    /\ Len(calls["titles"]) = 2 /\ Len(calls[TS]) = 1
    /\ outcome[TS] = "threw"
    /\ result["titles"] = TitlesRepairFallback
    /\ result["summary"] = SummaryErrorFallback
    /\ Len(result["social"].twitter) = 280

\* a first timestamps reply with no usable titles that JSON.parse accepts or
\* that has no body: an empty or absent content, or JSON without a titles key
NoTitlesGiven(r) ==
    \/ r.c \in {"empty", "absent"}
    \/ r.c = "json" /\ r.j.t = "obj" /\ "titles" \notin DOMAIN r.j.v

\* C20 as stated: every validation failure of the first timestamps reply, not
\* only a JSON parse failure, leads to exactly one repair call.
C20_Original ==
    (HasReply(TS, 1) /\ Malformed(TS, got[TS][1].r))
    => Len(calls[TS]) = 2 /\ IsRepairCall(calls[TS][2])

\* C20 amended: the timestamps flow issues its one repair call exactly when
\* the first reply is a non-empty text that JSON.parse rejects, is the JSON
\* value null, or carries a titles object whose length cannot be logged or
\* compares greater than zero. Any other malformed first reply ends the request after the
\* first call; with an empty body or with JSON lacking the titles key every
\* description is the chapter's headline.
C20_RepairOnParseFailureOnly ==
    HasReply(TS, 1)
    => LET r == got[TS][1].r IN
       /\ TriggersRepair(TS, r)
          <=> (Len(calls[TS]) = 2 /\ IsRepairCall(calls[TS][2]))
       /\ Len(calls[TS]) \in {1, 2}
       /\ Len(calls[TS]) = 1 => Done(TS)
       /\ NoTitlesGiven(r) => (Returned(TS) /\ AllHeadlines /\ Len(got[TS]) = 1)

C20_Witness ==
    /\ Returned(TS)
    /\ HasReply(TS, 1)
    /\ got[TS][1].r = JsonContent(JObj([chapters |-> JArr(<<>>)]))
    /\ Len(calls[TS]) = 1
    /\ AllHeadlines
    /\ NumChapters = 2

\* every completion call of the timestamps request returned a reply
AllCallsReplied == \A i \in 1..Len(got[TS]) : IsReply(got[TS][i])

\* C21 as stated: with a non-empty chapters sequence and completion calls that
\* all return a reply, generateYouTubeTimestamps lets no exception escape,
\* whatever the replies contain: it always returns a timestamp list, one entry
\* per used chapter.
C21_Original ==
    (Done(TS) /\ NumChapters > 0 /\ AllCallsReplied)
    => (Returned(TS) /\ Len(result[TS]) = UsedChapters)

\* the position of a request in its life: Init, FirstAttempt (first call in
\* flight), RepairAttempt (repair call in flight), ended (Success, Fallback or,
\* for timestamps, an escaped error). NeedsRepair and Failed are the moments a
\* reply is found unusable, inside the step that receives it.
Rank(p) ==
    CASE p = "off" -> 0
      [] p = "init" -> 1
      [] p = "first" -> 2
      [] p = "repair" -> 3
      [] OTHER -> 4

\* one step of the request of kind k moves it forward, enters RepairAttempt
\* only from a first reply that needs repair, and changes nothing once ended
ForwardStep(k) ==
    /\ Rank(pc'[k]) >= Rank(pc[k])
    /\ pc'[k] # pc[k]
       => <<pc[k], pc'[k]>> \in {<<"init", "first">>, <<"init", "done">>,
                                 <<"first", "repair">>, <<"first", "done">>,
                                 <<"repair", "done">>}
    /\ pc'[k] = pc[k] => (calls'[k] = calls[k] /\ got'[k] = got[k])
    /\ (pc'[k] = "repair" /\ pc[k] # "repair")
       => /\ pc[k] = "first"
          /\ Len(got'[k]) = 1 /\ IsReply(got'[k][1])
          /\ TriggersRepair(k, got'[k][1].r)
          /\ Len(calls'[k]) = 2 /\ IsRepairCall(calls'[k][2])
    /\ pc'[k] = "first" => (Len(calls'[k]) = 1 /\ ~IsRepairCall(calls'[k][1]))
    /\ pc[k] = "done"
       => /\ pc'[k] = "done"
          /\ calls'[k] = calls[k] /\ got'[k] = got[k]
          /\ outcome'[k] = outcome[k] /\ result'[k] = result[k]

\* C22: each generation request moves only forward through Init, FirstAttempt,
\* Success or NeedsRepair, RepairAttempt, Success or Failed, Fallback: it never
\* returns to an earlier state, RepairAttempt is entered only from a first
\* reply that needs repair, and an ended request issues no further call.
C22_ForwardOnly == [][\A k \in Kinds : ForwardStep(k)]_vars

C22_Witness ==
    /\ BothMalformed("social")
    /\ Returned("social")
    /\ Len(calls["social"]) = 2 /\ IsRepairCall(calls["social"][2])
    /\ result["social"] = SocialRepairFallback

\* the request of kind k is over: it returned a value or, timestamps only,
\* raised an error, having issued at most two completion calls
Terminated(k) ==
    /\ Done(k)
    /\ outcome[k] \in {"returned", "threw"}
    /\ outcome[k] = "threw" => k = TS
    /\ Len(calls[k]) <= 2
    /\ Len(got[k]) = Len(calls[k])

\* C23: when every issued completion call eventually returns a reply or
\* fails, every generation request of every kind eventually terminates: it
\* returns a value or (timestamps only) raises an error, after at most two
\* completion calls.
C23_Terminates == \A k \in Kinds : (pc[k] = "init") ~> Terminated(k)

C23_Witness ==
    /\ Terminated(TS)
    /\ outcome[TS] = "returned"
    /\ Len(calls[TS]) = 2
    /\ CallThrew(TS, 2)

\* the request of kind k has issued its repair call
Repairing(k) == Len(calls[k]) = 2 /\ IsRepairCall(calls[k][2])

\* C24 as stated: for every kind, the repair call is sent with the same system
\* prompt as the first call of the request; the user instruction differs.
C24_Original ==
    \A k \in Kinds :
        Repairing(k)
        => /\ calls[k][2].system = calls[k][1].system
           /\ calls[k][2].user # calls[k][1].user

\* C24 amended: for summary, social posts and titles the repair call is sent
\* with the system prompt of the first call and another user instruction; the
\* timestamps repair call has a system prompt of its own, different from the
\* one of its first call. The model is the same in every call.
C24_SameSystemButTimestamps ==
    \A k \in Kinds :
        Repairing(k)
        => /\ (calls[k][2].system = calls[k][1].system) <=> (k # TS)
           /\ calls[k][2].user # calls[k][1].user
           /\ calls[k][2].model = calls[k][1].model

C24_Witness ==
    /\ Repairing("titles")
    /\ calls["titles"][1].system = "TITLES_SYSTEM_PROMPT"
    /\ calls["titles"][2].system = "TITLES_SYSTEM_PROMPT"
    /\ pc["titles"] = "repair"

\* C25: in generateSummary, generateSocialPosts and generateTitles a first
\* completion call that throws is followed by no repair call: exactly one call
\* is recorded and the error placeholder is returned. A repair call is issued
\* only after a first call that returned a reply which failed parsing or
\* validation.
C25_NoRepairAfterThrow ==
    \A k \in ZodKinds :
        /\ CallThrew(k, 1)
           => /\ Returned(k)
              /\ Len(calls[k]) = 1 /\ Len(got[k]) = 1
              /\ ~IsRepairCall(calls[k][1])
              /\ result[k] = ErrorFallback(k)
        /\ (\E i \in 1..Len(calls[k]) : IsRepairCall(calls[k][i]))
           => /\ HasReply(k, 1)
              /\ Malformed(k, got[k][1].r)

C25_Witness ==
    /\ Returned("summary")
    /\ CallThrew("summary", 1)
    /\ Len(calls["summary"]) = 1
    /\ result["summary"] = SummaryErrorFallback

\* the number of seconds a formatted timestamp stands for
SecondsOf(ts) ==
    IF Len(ts) = 2 THEN ts[1] * 60 + ts[2]
    ELSE ts[1] * 3600 + ts[2] * 60 + ts[3]

\* C26: whenever generateYouTubeTimestamps returns, the list has exactly
\* min(n, 100) entries for n input chapters and entry i carries the time of
\* chapter i, the floor of its start in ms divided by 1000, in chapter order:
\* length, order and times are a function of the chapters alone, whatever the
\* replies were.
C26_TimingFromChapters ==
    Returned(TS)
    => /\ Len(result[TS]) = Min(NumChapters, 100)
       /\ \A i \in 1..Len(result[TS]) :
            /\ DOMAIN result[TS][i] = {"timestamp", "description"}
            /\ SecondsOf(result[TS][i].timestamp)
                 = transcript.chapters.list[i].start \div 1000
            /\ Len(result[TS][i].timestamp) = 3
               <=> transcript.chapters.list[i].start >= 3600000

C26_Witness ==
    /\ Returned(TS)
    /\ NumChapters = 2
    /\ Len(result[TS]) = 2
    /\ Len(aiTitles.v) = 2
    /\ aiTitles.v[1] = TitleEntry(JNum(100), JStr(A1))
    /\ aiTitles.v[2] = TitleEntry(JNum(1), JStr(A1))
    /\ transcript.chapters.list[1].start = 999
    /\ result[TS][1].timestamp = <<0, 0>>
    /\ result[TS][2].timestamp = <<1, 2>>

\* the accepted title entry at position p has the number n as its index
HasIndex(p, n) ==
    /\ aiTitles.v[p].t = "obj"
    /\ "index" \in DOMAIN aiTitles.v[p].v
    /\ aiTitles.v[p].v.index = JNum(n)

\* the entry at position p is the earliest one with index n
EarliestWithIndex(p, n) == HasIndex(p, n) /\ \A q \in 1..(p - 1) : ~HasIndex(q, n)

\* C27: model titles are matched to chapters by their index field, not by
\* their position in the reply: wherever in the reply the earliest entry with
\* index i stands, its title (when it has a non-empty one) is the description
\* of chapter i, and no later entry with the same index is used.
C27_MatchedByIndex ==
    Returned(TS)
    => \A i \in 1..Len(result[TS]) :
         \A p \in 1..Len(aiTitles.v) :
            EarliestWithIndex(p, i - 1)
            => result[TS][i].description =
                 IF NoTitle(aiTitles.v[p]) THEN JStr(Headline(i))
                 ELSE aiTitles.v[p].v.title

C27_Witness ==
    /\ Returned(TS)
    /\ NumChapters = 2
    /\ Len(aiTitles.v) = 2
    /\ aiTitles.v[1] = TitleEntry(JNum(1), JStr(A1))
    /\ aiTitles.v[2] = TitleEntry(JNum(0), JStr(B2))
    /\ result[TS][1].description = JStr(B2)
    /\ result[TS][2].description = JStr(A1)

\* C28: the twitter truncation step changes nothing but an over-long twitter
\* field: linkedin, instagram, tiktok, youtube and facebook are returned
\* exactly as accepted, whatever their length, and a twitter field of 280
\* characters or fewer is returned unchanged.
C28_TruncationFrame ==
    \A i \in {1, 2} :
        SocialAccepted(i)
        => /\ DOMAIN result["social"] = SocialKeys
           /\ \A f \in {"linkedin", "instagram", "tiktok", "youtube", "facebook"} :
                result["social"][f] = got["social"][i].r.j.v[f].v
           /\ Len(AcceptedTwitter(i)) <= 280
              => result["social"].twitter = AcceptedTwitter(i)

C28_Witness ==
    /\ SocialAccepted(1)
    /\ Len(AcceptedTwitter(1)) = 280
    /\ result["social"].twitter = AcceptedTwitter(1)
    /\ result["social"].linkedin = A1

====
